---- MODULE Spec2Model ----
(***************************************************************************)
(* A model of the event-driven Redis-compatible server: the RESP request   *)
(* parser, the command executor, the single event loop with its client     *)
(* registry and replica fan-out, the per-connection reader tasks, and the  *)
(* replica-side handshake and replication-stream reader.                   *)
(*                                                                         *)
(* Byte strings are TLA+ strings; Len, \o and SubSeq act on them           *)
(* byte-wise.  A socket address is modelled by its port: the listener is   *)
(* bound to 127.0.0.1, so every peer address has the same ip.              *)
(***************************************************************************)
EXTENDS Integers, Sequences, FiniteSets, TLC

(***************************************************************************)
(* Bounds of the model.                                                    *)
(***************************************************************************)
MaxConn == 2
MaxWrites == 4
KVConns == 2
KVWrites == 3
MaxTime == 2
MaxPropagated == 1
PsyncWrites == 2
ReaderWrites == 2
ReaderReads == 3
ReplicaWrites == 1
CloseWrites == 1
QueueWrites == 33
RdbWrites == 1
InfoWrites == 3
PanicWrites == 3
ExpiryWrites == 4
ReadWrites == 3
ResyncWrites == 3
MaxFollowing == 4
SleepStep == 500
SleepHorizon == 1500
MaxSections == 2
PeersWrites == 3
LeaveWrites == 3

(***************************************************************************)
(* protocol_constants.rs                                                   *)
(***************************************************************************)
ARRAY_PREFIX == "*"
BULK_STRING_PREFIX == "$"
SIMPLE_STRING_PREFIX == "+"
CRLF == "\r\n"

\* Option::None of an Option<u64> (no u64 is negative).
NoneU64 == -1

\* mpsc::channel::<RedisEvent>(32)
ChannelCapacity == 32
\* the reader task's buffer, [0u8; 512]
ReadBufferSize == 512
\* the stream task's temp_buffer, [0u8; 1024]
StreamBufferSize == 1024

(***************************************************************************)
(* Strings and numbers.  The loops over a string are recursive functions,  *)
(* whose arguments are values: each step works on what the step before     *)
(* left.                                                                   *)
(***************************************************************************)
Char(s, i) == SubSeq(s, i, i)

Digits == <<"0", "1", "2", "3", "4", "5", "6", "7", "8", "9">>

IsDigit(c) == \E i \in 1..10 : Digits[i] = c

DigitValue(c) == (CHOOSE i \in 1..10 : Digits[i] = c) - 1

\* format!("{}", n) of an unsigned integer
RECURSIVE Decimal(_)
Decimal(n) == IF n < 10 THEN Digits[n + 1] ELSE Decimal(n \div 10) \o Digits[(n % 10) + 1]

\* format!("{}", n) of a signed integer
SignedDecimal(n) == IF n < 0 THEN "-" \o Decimal(-n) ELSE Decimal(n)

StartsWith(s, p) == Len(s) >= Len(p) /\ SubSeq(s, 1, Len(p)) = p

Contains(s, p) == \E i \in 1..(Len(s) - Len(p) + 1) : SubSeq(s, i, i + Len(p) - 1) = p

\* the index of the first byte c of s at or after index from, 0 when there is none
Position(s, c, from) ==
    LET P[t \in STRING, i \in Nat] ==
            IF i > Len(t) THEN 0
            ELSE IF Char(t, i) = c THEN i
            ELSE P[t, i + 1]
    IN  P[s, from]

DigitsValue(s, acc) ==
    LET V[t \in STRING, a \in Nat] ==
            IF t = "" THEN a
            ELSE V[Tail(t), a * 10 + DigitValue(Char(t, 1))]
    IN  V[s, acc]

AllDigits(s) == s # "" /\ \A i \in 1..Len(s) : IsDigit(Char(s, i))

\* str::parse::<usize>() and parse::<u64>(): an optional '+', then digits.
\* The result is NoneU64 on an error.
ParseUnsigned(s) ==
    LET body == IF StartsWith(s, "+") THEN Tail(s) ELSE s
    IN  IF AllDigits(body) THEN DigitsValue(body, 0) ELSE NoneU64

\* str::parse::<i64>(): [ok, value]
ParseI64(s) ==
    LET neg == StartsWith(s, "-")
        body == IF neg \/ StartsWith(s, "+") THEN Tail(s) ELSE s
    IN  IF AllDigits(body)
        THEN [ok |-> TRUE, value |-> IF neg THEN -DigitsValue(body, 0) ELSE DigitsValue(body, 0)]
        ELSE [ok |-> FALSE, value |-> 0]

\* str::to_uppercase on the option names the model's clients send
ToUpper(s) ==
    CASE s = "px" -> "PX"
      [] s = "ex" -> "EX"
      [] s = "get" -> "GET"
      [] OTHER -> s

\* str::lines(): lines end at "\n"; a "\r" right before that "\n" is dropped;
\* a last line without "\n" is kept as it is.
Lines(s) ==
    LET L[t \in STRING] ==
            IF t = "" THEN <<>>
            ELSE LET nl == Position(t, "\n", 1)
                 IN  IF nl = 0 THEN <<t>>
                     ELSE LET raw == SubSeq(t, 1, nl - 1)
                              line == IF raw # "" /\ Char(raw, Len(raw)) = "\r"
                                      THEN SubSeq(raw, 1, Len(raw) - 1) ELSE raw
                          IN  <<line>> \o L[SubSeq(t, nl + 1, Len(t))]
    IN  L[s]

\* util.rs construct_redis_command
ConstructArgs(args) ==
    LET C[a \in Seq(STRING)] ==
            IF a = <<>> THEN ""
            ELSE BULK_STRING_PREFIX \o Decimal(Len(Head(a))) \o CRLF \o Head(a) \o CRLF
                 \o C[Tail(a)]
    IN  C[args]

construct_redis_command(args) ==
    ARRAY_PREFIX \o Decimal(Len(args)) \o CRLF \o ConstructArgs(args)

(***************************************************************************)
(* command_parser.rs: a request (one socket read, as text) to a Command or *)
(* an ArgumentError.  A result is [ok |-> TRUE, cmd |-> c] or              *)
(* [ok |-> FALSE, err |-> message].                                        *)
(***************************************************************************)
PING_COMMAND == "PING"
ECHO_COMMAND == "ECHO"
GET_COMMAND == "GET"
SET_COMMAND == "SET"
CONFIG_COMMAND == "CONFIG"
KEYS_COMMAND == "KEYS"
INFO_COMMAND == "INFO"
REPLCONF_COMMAND == "REPLCONF"
PSYNC_COMMAND == "PSYNC"
PX_OPTION == "PX"
EX_OPTION == "EX"
CONFIG_GET_OPTION == "GET"

\* errors.rs: #[error("Argument Error: {0}")] General(String)
ArgumentError(msg) == [ok |-> FALSE, err |-> "Argument Error: " \o msg]

OkCommand(c) == [ok |-> TRUE, cmd |-> c]

check_args_len(args, expected_len, command_name) ==
    IF Len(args) # expected_len
    THEN ArgumentError("Argument Error: " \o command_name \o " " \o Decimal(expected_len - 1))
    ELSE [ok |-> TRUE]

parse_ping(args) ==
    IF ~check_args_len(args, 1, PING_COMMAND).ok THEN check_args_len(args, 1, PING_COMMAND)
    ELSE OkCommand([name |-> "PING"])

parse_echo(args) ==
    IF ~check_args_len(args, 2, ECHO_COMMAND).ok THEN check_args_len(args, 2, ECHO_COMMAND)
    ELSE OkCommand([name |-> "ECHO", arg |-> args[2]])

parse_get(args) ==
    IF ~check_args_len(args, 2, GET_COMMAND).ok THEN check_args_len(args, 2, GET_COMMAND)
    ELSE OkCommand([name |-> "GET", arg |-> args[2]])

\* [ok |-> TRUE, value |-> n] or an ArgumentError; index counts from 1 here
parse_option_value(args, index, option) ==
    IF index + 1 <= Len(args)
    THEN IF ParseUnsigned(args[index + 1]) = NoneU64
         THEN ArgumentError("Invalid option value: " \o option)
         ELSE [ok |-> TRUE, value |-> ParseUnsigned(args[index + 1])]
    ELSE ArgumentError("Option requires an argument: " \o option)

\* the option loop of parse_set, from argument arg_index on
RECURSIVE ParseSetOptions(_, _, _, _)
ParseSetOptions(args, arg_index, ex, px) ==
    IF arg_index > Len(args)
    THEN OkCommand([name |-> "SET", key |-> args[2], value |-> args[3], ex |-> ex, px |-> px])
    ELSE LET opt == ToUpper(args[arg_index])
         IN  IF opt = PX_OPTION
             THEN LET v == parse_option_value(args, arg_index, PX_OPTION)
                  IN  IF v.ok THEN ParseSetOptions(args, arg_index + 2, ex, v.value) ELSE v
             ELSE IF opt = EX_OPTION
             THEN LET v == parse_option_value(args, arg_index, EX_OPTION)
                  IN  IF v.ok THEN ParseSetOptions(args, arg_index + 2, v.value, px) ELSE v
             ELSE ArgumentError("Unknown option: '" \o args[arg_index] \o "'")

parse_set(args) ==
    IF Len(args) < 3
    THEN ArgumentError("SET requires at least key and value arguments")
    ELSE ParseSetOptions(args, 4, NoneU64, NoneU64)

parse_config(args) ==
    IF Len(args) < 3
    THEN ArgumentError("CONFIG subcommand requires at least 2 arguments")
    ELSE IF ToUpper(args[2]) = CONFIG_GET_OPTION
         THEN OkCommand([name |-> "CONFIG", arg |-> args[3]])
         ELSE ArgumentError("Unsupported CONFIG subcommand")

\* The arms of CommandParser::parse_message that build the KEYS, INFO,
\* REPLCONF and PSYNC variants of Command (command.rs 18-21): the callers
\* (main.rs 117, config_handler.rs 379) use them, the parser file holds only
\* the five arms above.  REPLCONF and PSYNC carry the arguments after the name.
ParseReplicationArms(args) ==
    CASE args[1] = KEYS_COMMAND ->
            IF Len(args) = 2 THEN OkCommand([name |-> "KEYS", arg |-> args[2]])
            ELSE ArgumentError("Argument Error: KEYS 1")
      [] args[1] = INFO_COMMAND ->
            IF Len(args) = 2 THEN OkCommand([name |-> "INFO", arg |-> args[2]])
            ELSE ArgumentError("Argument Error: INFO 1")
      [] args[1] = REPLCONF_COMMAND -> OkCommand([name |-> "REPLCONF", args |-> Tail(args)])
      [] args[1] = PSYNC_COMMAND -> OkCommand([name |-> "PSYNC", args |-> Tail(args)])
      [] OTHER -> ArgumentError("Unknown command: " \o args[1])

\* the match on the command name, parse_message 27-38
ParseCommand(args) ==
    IF args = <<>> THEN ArgumentError("Empty command")
    ELSE CASE args[1] = PING_COMMAND -> parse_ping(args)
           [] args[1] = ECHO_COMMAND -> parse_echo(args)
           [] args[1] = GET_COMMAND -> parse_get(args)
           [] args[1] = SET_COMMAND -> parse_set(args)
           [] args[1] = CONFIG_COMMAND -> parse_config(args)
           [] OTHER -> ParseReplicationArms(args)

\* the loop over the bulk strings, parse_message 13-25: lines idx, idx+1 hold
\* the next bulk string; [ok |-> TRUE, args |-> a] or an ArgumentError
ReadBulkStrings(all_lines, first, num_args, no_args) ==
    LET R[lines \in Seq(STRING), idx \in Nat, remaining \in Nat, args \in Seq(STRING)] ==
            IF remaining = 0 THEN [ok |-> TRUE, args |-> args]
            ELSE IF idx > Len(lines) THEN ArgumentError("Missing bulk length")
            ELSE IF ~StartsWith(lines[idx], BULK_STRING_PREFIX)
                 THEN ArgumentError("Invalid bulk string format")
            ELSE IF ParseUnsigned(Tail(lines[idx])) = NoneU64
                 THEN ArgumentError("Invalid bulk length")
            ELSE IF idx + 1 > Len(lines) THEN ArgumentError("Missing bulk string")
            ELSE IF Len(lines[idx + 1]) # ParseUnsigned(Tail(lines[idx]))
                 THEN ArgumentError("Bulk string length mismatch")
            ELSE R[lines, idx + 2, remaining - 1, Append(args, lines[idx + 1])]
    IN  R[all_lines, first, num_args, no_args]

parse_message(message) ==
    LET M[lines \in Seq(STRING)] ==
            IF lines = <<>> THEN ArgumentError("Empty message")
            ELSE IF StartsWith(lines[1], ARRAY_PREFIX)
            THEN IF ParseUnsigned(Tail(lines[1])) = NoneU64
                 THEN ArgumentError("Invalid array size")
                 ELSE LET r == ReadBulkStrings(lines, 2, ParseUnsigned(Tail(lines[1])), <<>>)
                      IN  IF r.ok THEN ParseCommand(r.args) ELSE r
            ELSE ArgumentError("Unsupported protocol type")
    IN  M[Lines(message)]


(***************************************************************************)
(* value_entry.rs.  t is SystemTime::now(), in milliseconds.               *)
(***************************************************************************)
new_relative(value, duration_ms, t) ==
    [value |-> value,
     expiration |-> IF duration_ms = NoneU64 THEN NoneU64 ELSE t + duration_ms]

\* is_expired with the comparison t >= expiration
is_expired_AtDeadline(entry, t) ==
    IF entry.expiration # NoneU64 THEN t >= entry.expiration ELSE FALSE

is_expired(entry, t) ==
    IF entry.expiration # NoneU64 THEN t > entry.expiration ELSE FALSE

(***************************************************************************)
(* replication_config.rs                                                   *)
(***************************************************************************)
\* generate_replication_id: 40 alphanumeric characters, drawn once at startup
master_replid == "8371b4fb1155b71f4a04d3e1bc3e18c4a990aeeb"

\* the ip of every peer of the listener bound to 127.0.0.1
PeerIp == "127.0.0.1"

\* register_slave without its check for an entry of the same address
register_slave_NoCheck(sl, addr) == Append(sl, [addr |-> addr, offset |-> 0])

register_slave(sl, addr) ==
    IF ~\E i \in 1..Len(sl) : sl[i].addr = addr
    THEN Append(sl, [addr |-> addr, offset |-> 0])
    ELSE sl

RECURSIVE SlaveLines(_, _)
SlaveLines(sl, i) ==
    IF i > Len(sl) THEN ""
    ELSE "slave" \o Decimal(i - 1) \o ":ip=" \o PeerIp \o ",port=" \o Decimal(sl[i].addr)
         \o ",state=online,offset=" \o SignedDecimal(sl[i].offset) \o "\r\n"
         \o SlaveLines(sl, i + 1)

\* get_replication_info without the loop over the registered slaves
get_replication_info_NoSlaveLines(r, host, port, repl_offset, sl) ==
    LET head == BULK_STRING_PREFIX \o "role:" \o r \o CRLF
    IN  IF r = "master"
        THEN head \o "master_replid:" \o master_replid \o CRLF
             \o "master_repl_offset:" \o Decimal(repl_offset) \o CRLF
             \o "connected_slaves:" \o Decimal(Len(sl)) \o "\r\n"
        ELSE IF r = "slave"
        THEN IF host # "" /\ port # NoneU64
             THEN head \o "master_host:" \o host \o CRLF
                  \o "master_port:" \o Decimal(port) \o CRLF
                  \o "master_link_status:up" \o CRLF
             ELSE head
        ELSE head

get_replication_info(r, host, port, repl_offset, sl) ==
    LET head == BULK_STRING_PREFIX \o "role:" \o r \o CRLF
    IN  IF r = "master"
        THEN head \o "master_replid:" \o master_replid \o CRLF
             \o "master_repl_offset:" \o Decimal(repl_offset) \o CRLF
             \o "connected_slaves:" \o Decimal(Len(sl)) \o "\r\n"
             \o SlaveLines(sl, 1)
        ELSE IF r = "slave"
        THEN IF host # "" /\ port # NoneU64
             THEN head \o "master_host:" \o host \o CRLF
                  \o "master_port:" \o Decimal(port) \o CRLF
                  \o "master_link_status:up" \o CRLF
             ELSE head
        ELSE head

(***************************************************************************)
(* command.rs: Command::execute.  A response is a CommandResponse,         *)
(* [type |-> "Simple" or "Bulk", data |-> bytes].                          *)
(***************************************************************************)
Simple(data) == [type |-> "Simple", data |-> data]
Bulk(data) == [type |-> "Bulk", data |-> data]

NullBulk == BULK_STRING_PREFIX \o "-1" \o CRLF

BulkString(v) == BULK_STRING_PREFIX \o Decimal(Len(v)) \o CRLF \o v \o CRLF

execute_get(key, d, t) ==
    IF key \in DOMAIN d
    THEN IF is_expired(d[key], t) THEN NullBulk ELSE BulkString(d[key].value)
    ELSE NullBulk

\* an expiry that prefers EX to PX
expiration_ms_ExFirst(px, ex) ==
    IF ex # NoneU64 THEN ex * 1000
    ELSE IF px # NoneU64 THEN px
    ELSE NoneU64

\* the expiry of execute_set: (Some(ms), _) => ms, (None, Some(s)) => s * 1000
expiration_ms(px, ex) ==
    IF px # NoneU64 THEN px
    ELSE IF ex # NoneU64 THEN ex * 1000
    ELSE NoneU64

\* HashMap::insert
Insert(d, key, entry) ==
    [k \in DOMAIN d \cup {key} |-> IF k = key THEN entry ELSE d[k]]

\* execute_set that keeps the entry of a key that is already set
execute_set_KeepOld(key, value, ex, px, d, t) ==
    IF key \in DOMAIN d THEN d
    ELSE [k \in DOMAIN d \cup {key} |->
            IF k = key THEN [value |-> value, expiration |-> NoneU64] ELSE d[k]]

\* the keyspace after execute_set (its response is +OK)
execute_set(key, value, ex, px, d, t) ==
    Insert(d, key, new_relative(value, expiration_ms(px, ex), t))

OkResponse == SIMPLE_STRING_PREFIX \o "OK" \o CRLF

\* the bytes of the SET arm's replicated_command
replicated_command(key, value) ==
    "*3\r\n$3\r\nSET\r\n$" \o Decimal(Len(key)) \o "\r\n" \o key
    \o "\r\n$" \o Decimal(Len(value)) \o "\r\n" \o value \o "\r\n"

execute_config(key, cfg) ==
    IF key \in DOMAIN cfg
    THEN ARRAY_PREFIX \o "2" \o CRLF \o BULK_STRING_PREFIX \o Decimal(Len(key)) \o CRLF \o key
         \o CRLF \o BULK_STRING_PREFIX \o Decimal(Len(cfg[key])) \o CRLF \o cfg[key] \o CRLF
    ELSE NullBulk

\* the orders in which HashMap::keys may list the keys
KeyOrders(d) ==
    {o \in [1..Cardinality(DOMAIN d) -> DOMAIN d] :
        \A i, j \in DOMAIN o : i # j => o[i] # o[j]}

RECURSIVE KeyBulks(_)
KeyBulks(keys) ==
    IF keys = <<>> THEN ""
    ELSE "$" \o Decimal(Len(Head(keys))) \o "\r\n" \o Head(keys) \o "\r\n" \o KeyBulks(Tail(keys))

execute_keys(order) == "*" \o Decimal(Len(order)) \o "\r\n" \o KeyBulks(order)

\* str::to_lowercase on the section names the model's clients send
ToLower(s) ==
    CASE s = "REPLICATION" -> "replication"
      [] s = "Replication" -> "replication"
      [] OTHER -> s

execute_info(section, r, host, port, sl) ==
    IF ToLower(section) = "replication"
    THEN LET info == get_replication_info(r, host, port, 0, sl)
         IN  "$" \o Decimal(Len(info)) \o "\r\n" \o info \o "\r\n"
    ELSE NullBulk

\* TODO of the source: give real rdb file if needed.  0xFF, which no text
\* holds, is written "\f" in the model's byte strings.
OPCODE_EOF == "\f"
EMPTY_RDB_FILE == "REDIS0009" \o OPCODE_EOF

\* [response, registers]: registers says that SlaveConnected is published.
\* args[0] of an empty argument list panics: that case is the caller's.
execute_replconf(args) ==
    IF args[1] = "listening-port" THEN [response |-> OkResponse, registers |-> TRUE]
    ELSE IF args[1] = "capa" THEN [response |-> OkResponse, registers |-> FALSE]
    ELSE [response |-> "-ERR Invalid REPLCONF arguments" \o CRLF, registers |-> FALSE]

execute_psync(args, repl_id) ==
    LET requested_offset ==
            IF Len(args) >= 2 /\ ParseI64(args[2]).ok THEN ParseI64(args[2]).value ELSE -1
        master_offset == 0
    IN  IF requested_offset = -1 \/ requested_offset < master_offset
        THEN << Simple(SIMPLE_STRING_PREFIX \o "FULLRESYNC " \o repl_id \o " "
                       \o Decimal(master_offset) \o CRLF),
                Bulk(EMPTY_RDB_FILE) >>
        ELSE << Simple(SIMPLE_STRING_PREFIX \o "CONTINUE" \o CRLF) >>

(***************************************************************************)
(* Events (event.rs).                                                      *)
(***************************************************************************)
ClientConnected(id, writer, addr) ==
    [type |-> "ClientConnected", client_id |-> id, writer |-> writer, addr |-> addr]
CommandReceived(id, command) ==
    [type |-> "CommandReceived", client_id |-> id, command |-> command]
SlaveConnected(addr) == [type |-> "SlaveConnected", addr |-> addr]
PropagateSlave(message) == [type |-> "PropagateSlave", message |-> message]

\* Command::execute without the early return of the SET arm for a slave
execute_PropagateOnSlave(cmd, d, cfg, r, host, port, sl, peer_addr, t, order) ==
    LET same(resp) == [responses |-> resp, db |-> d, events |-> <<>>, panic |-> FALSE]
    IN  CASE cmd.name = "PING" -> same(<<Simple(SIMPLE_STRING_PREFIX \o "PONG" \o CRLF)>>)
          [] cmd.name = "ECHO" -> same(<<Simple(BulkString(cmd.arg))>>)
          [] cmd.name = "GET" -> same(<<Simple(execute_get(cmd.arg, d, t))>>)
          [] cmd.name = "SET" ->
                [responses |-> <<Simple(OkResponse)>>,
                 db |-> execute_set(cmd.key, cmd.value, cmd.ex, cmd.px, d, t),
                 events |-> <<PropagateSlave(replicated_command(cmd.key, cmd.value))>>,
                 panic |-> FALSE]
          [] cmd.name = "CONFIG" -> same(<<Simple(execute_config(cmd.arg, cfg))>>)
          [] cmd.name = "KEYS" -> same(<<Simple(execute_keys(order))>>)
          [] cmd.name = "INFO" -> same(<<Simple(execute_info(cmd.arg, r, host, port, sl))>>)
          [] cmd.name = "REPLCONF" ->
                IF cmd.args = <<>>
                THEN [responses |-> <<>>, db |-> d, events |-> <<>>, panic |-> TRUE]
                ELSE [responses |-> <<Simple(execute_replconf(cmd.args).response)>>,
                      db |-> d,
                      events |-> IF execute_replconf(cmd.args).registers
                                 THEN <<SlaveConnected(peer_addr)>> ELSE <<>>,
                      panic |-> FALSE]
          [] cmd.name = "PSYNC" -> same(execute_psync(cmd.args, master_replid))

\* Command::execute with a GET that removes the entry it finds expired
execute_EvictOnGet(cmd, d, cfg, r, host, port, sl, peer_addr, t, order) ==
    LET same(resp) == [responses |-> resp, db |-> d, events |-> <<>>, panic |-> FALSE]
    IN  CASE cmd.name = "PING" -> same(<<Simple(SIMPLE_STRING_PREFIX \o "PONG" \o CRLF)>>)
          [] cmd.name = "ECHO" -> same(<<Simple(BulkString(cmd.arg))>>)
          [] cmd.name = "GET" ->
                [responses |-> <<Simple(execute_get(cmd.arg, d, t))>>,
                 db |-> IF cmd.arg \in DOMAIN d /\ is_expired(d[cmd.arg], t)
                        THEN [k \in DOMAIN d \ {cmd.arg} |-> d[k]] ELSE d,
                 events |-> <<>>, panic |-> FALSE]
          [] cmd.name = "SET" ->
                [responses |-> <<Simple(OkResponse)>>,
                 db |-> execute_set(cmd.key, cmd.value, cmd.ex, cmd.px, d, t),
                 events |-> IF r = "slave" THEN <<>>
                            ELSE <<PropagateSlave(replicated_command(cmd.key, cmd.value))>>,
                 panic |-> FALSE]
          [] cmd.name = "CONFIG" -> same(<<Simple(execute_config(cmd.arg, cfg))>>)
          [] cmd.name = "KEYS" -> same(<<Simple(execute_keys(order))>>)
          [] cmd.name = "INFO" -> same(<<Simple(execute_info(cmd.arg, r, host, port, sl))>>)
          [] cmd.name = "REPLCONF" ->
                IF cmd.args = <<>>
                THEN [responses |-> <<>>, db |-> d, events |-> <<>>, panic |-> TRUE]
                ELSE [responses |-> <<Simple(execute_replconf(cmd.args).response)>>,
                      db |-> d,
                      events |-> IF execute_replconf(cmd.args).registers
                                 THEN <<SlaveConnected(peer_addr)>> ELSE <<>>,
                      panic |-> FALSE]
          [] cmd.name = "PSYNC" -> same(execute_psync(cmd.args, master_replid))

\* Command::execute: [responses, db, events, panic].  events are what the
\* executor publishes, in order; order is the keys' order in the HashMap.
execute(cmd, d, cfg, r, host, port, sl, peer_addr, t, order) ==
    LET same(resp) == [responses |-> resp, db |-> d, events |-> <<>>, panic |-> FALSE]
    IN  CASE cmd.name = "PING" -> same(<<Simple(SIMPLE_STRING_PREFIX \o "PONG" \o CRLF)>>)
          [] cmd.name = "ECHO" -> same(<<Simple(BulkString(cmd.arg))>>)
          [] cmd.name = "GET" -> same(<<Simple(execute_get(cmd.arg, d, t))>>)
          [] cmd.name = "SET" ->
                [responses |-> <<Simple(OkResponse)>>,
                 db |-> execute_set(cmd.key, cmd.value, cmd.ex, cmd.px, d, t),
                 events |-> IF r = "slave" THEN <<>>
                            ELSE <<PropagateSlave(replicated_command(cmd.key, cmd.value))>>,
                 panic |-> FALSE]
          [] cmd.name = "CONFIG" -> same(<<Simple(execute_config(cmd.arg, cfg))>>)
          [] cmd.name = "KEYS" -> same(<<Simple(execute_keys(order))>>)
          [] cmd.name = "INFO" -> same(<<Simple(execute_info(cmd.arg, r, host, port, sl))>>)
          [] cmd.name = "REPLCONF" ->
                IF cmd.args = <<>>
                THEN [responses |-> <<>>, db |-> d, events |-> <<>>, panic |-> TRUE]
                ELSE [responses |-> <<Simple(execute_replconf(cmd.args).response)>>,
                      db |-> d,
                      events |-> IF execute_replconf(cmd.args).registers
                                 THEN <<SlaveConnected(peer_addr)>> ELSE <<>>,
                      panic |-> FALSE]
          [] cmd.name = "PSYNC" -> same(execute_psync(cmd.args, master_replid))

\* Command::handle_command: the byte strings it hands to write_all, in order
RECURSIVE ResponseWrites(_)
ResponseWrites(responses) ==
    IF responses = <<>> THEN <<>>
    ELSE IF Head(responses).type = "Simple"
         THEN <<Head(responses).data>> \o ResponseWrites(Tail(responses))
         ELSE << "$" \o Decimal(Len(Head(responses).data)) \o CRLF, Head(responses).data >>
              \o ResponseWrites(Tail(responses))

(***************************************************************************)
(* The state.                                                              *)
(*   now        the wall clock (SystemTime::now), in milliseconds          *)
(*   phase      main's position: "startup" until the listener is bound,    *)
(*              "serving" once the event loop and the acceptor run         *)
(*   config, db, role, master_host, master_port, slaves                    *)
(*              StateManager / ReplicationConfig; db and config are maps   *)
(*   clients    ClientManager.clients: client id -> [writer, addr]         *)
(*   queue      the mpsc channel of RedisEvent                             *)
(*   panicked   the event loop task panicked (the process exits)           *)
(*   connState, connPort, wire, out, reader                                *)
(*              the accepted sockets: "free", "open" or "closed" (by the   *)
(*              peer), the peer port, the bytes the peer sent that the     *)
(*              server has not read, the writes the server made on it,     *)
(*              and the reader task ("none", "running", "done")            *)
(*   hs, linkIn, linkOut, masterPos, size_str, rdb_size, stream, buffer    *)
(*              the replica's link to its primary: the handshake's         *)
(*              position, the bytes the primary sent that the replica has  *)
(*              not read, the messages the replica wrote, how many of      *)
(*              them the primary answered, the size loop's locals, the     *)
(*              stream task and its buffer                                 *)
(*   heard, rdb_buffer                                                     *)
(*              the responses that the handshake's expect_* steps read,    *)
(*              and the snapshot bytes it read; dropped with the other     *)
(*              locals when the handshake returns an error                 *)
(*   executed   history: the commands the event loop executed              *)
(*   published  history: per connection, the commands its reader published *)
(*   rejected   history: per connection, the errors of the requests its    *)
(*              reader failed to parse                                     *)
(*   script     history: per connection, the writes of the peer            *)
(*   sentCount  how many writes the peers made                             *)
(*   propagated how many frames the primary propagated on the link         *)
(*   pending    the events that the executor, inside handle_event, waits to *)
(*              send into the full channel; empty while the event loop     *)
(*              waits in rx.recv                                           *)
(*   rdb_file, rdb_result                                                  *)
(*              the bytes of the snapshot file at dir/dbfilename, and what *)
(*              the decoder returned for it: "none" (not run), "ok",       *)
(*              "error"                                                    *)
(*   length_input, length_result                                           *)
(*              the bytes at the decoder's position when it reads a length *)
(*              (the first byte and those that follow), and what           *)
(*              read_length_or_integer returned for them: <<>> (not        *)
(*              called) or <<[ok, value, pos]>>                            *)
(***************************************************************************)
VARIABLES now, phase, config, db, role, master_host, master_port, slaves,
          clients, queue, panicked,
          connState, connPort, wire, out, reader,
          hs, linkIn, linkOut, masterPos, size_str, rdb_size, stream, buffer,
          heard, rdb_buffer,
          executed, published, rejected, script, sentCount, propagated,
          pending, rdb_file, rdb_result, length_input, length_result

serverVars == <<config, db, role, master_host, master_port, slaves, clients, panicked>>
connVars == <<connState, connPort, wire, out, reader>>
linkVars == <<hs, linkIn, linkOut, masterPos, size_str, rdb_size, stream, buffer,
              heard, rdb_buffer, propagated>>
historyVars == <<executed, published, rejected, script, sentCount>>
loaderVars == <<rdb_file, rdb_result, length_input, length_result>>
vars == <<now, phase, queue, pending, serverVars, connVars, linkVars, historyVars, loaderVars>>

Conns == 1..MaxConn

\* the peer ports of the accepted sockets
Ports == {6001, 6002}

\* the socket of TcpStream::connect in the SlaveConnected arm: not an accepted one
DialedSocket == 0

EmptyMap == [k \in {} |-> 0]

(***************************************************************************)
(* The event loop (event_handler.rs, main.rs 94-98).                       *)
(***************************************************************************)
\* a channel that hands out the newest event first
Publish_Front(q, events) == events \o q

\* Sender::send: the event goes to the back of the channel
Publish(q, events) == q \o events

\* write_all of each chunk on the writer w; a write on a socket the peer has
\* closed fails, and the first failure ends handle_command
WriteAll(o, w, chunks, kind) ==
    IF w \in Conns /\ connState[w] = "open"
    THEN [o EXCEPT ![w] = @ \o [i \in 1..Len(chunks) |-> [kind |-> kind, bytes |-> chunks[i]]]]
    ELSE o

\* a fan-out that ends at the first write that fails
RECURSIVE Fanout_StopOnError(_, _, _, _, _)
Fanout_StopOnError(o, sl, cl, i, message) ==
    IF i > Len(sl) THEN o
    ELSE IF sl[i].addr \in DOMAIN cl
         THEN IF WriteAll(o, cl[sl[i].addr].writer, <<message>>, "prop") = o
              THEN o
              ELSE Fanout_StopOnError(WriteAll(o, cl[sl[i].addr].writer, <<message>>, "prop"),
                                      sl, cl, i + 1, message)
         ELSE Fanout_StopOnError(o, sl, cl, i + 1, message)

\* the PropagateSlave arm: one write_all per registered slave that has a
\* client record, in the registry's order; a failed write is logged
RECURSIVE Fanout(_, _, _, _, _)
Fanout(o, sl, cl, i, message) ==
    IF i > Len(sl) THEN o
    ELSE IF sl[i].addr \in DOMAIN cl
         THEN Fanout(WriteAll(o, cl[sl[i].addr].writer, <<message>>, "prop"), sl, cl, i + 1, message)
         ELSE Fanout(o, sl, cl, i + 1, message)

\* what the environment decides in the handling of event ev: the order in
\* which the HashMap lists its keys (KEYS), and whether TcpStream::connect to
\* the replica's address succeeds (SlaveConnected without a client record)
KeyOrderChoices(ev) ==
    IF ev.type = "CommandReceived" /\ ev.command.name = "KEYS" THEN KeyOrders(db) ELSE {<<>>}

ConnectChoices(ev) ==
    IF ev.type = "SlaveConnected" /\ ev.addr \notin DOMAIN clients THEN BOOLEAN ELSE {FALSE}

\* an event loop that applies to the keyspace the command of a client id
\* that has no record, without answering
HandleEvent_AppliesUnknown ==
    /\ phase = "serving"
    /\ ~panicked
    /\ pending = <<>>
    /\ queue # <<>>
    /\ \E order \in KeyOrderChoices(Head(queue)), connect_ok \in ConnectChoices(Head(queue)) :
        LET ev == Head(queue)
            rest == Tail(queue)
        IN  CASE ev.type = "ClientConnected" ->
                    /\ clients' = Insert(clients, ev.client_id,
                                         [writer |-> ev.writer, addr |-> ev.addr])
                    /\ queue' = rest
                    /\ UNCHANGED <<db, slaves, panicked, out, executed>>
              [] ev.type = "ClientDisconnected" ->
                    /\ clients' = [k \in DOMAIN clients \ {ev.client_id} |-> clients[k]]
                    /\ queue' = rest
                    /\ UNCHANGED <<db, slaves, panicked, out, executed>>
              [] ev.type = "CommandReceived" ->
                    IF ev.client_id \in DOMAIN clients
                    THEN LET cl == clients[ev.client_id]
                             res == execute(ev.command, db, config, role, master_host,
                                            master_port, slaves, cl.addr, now, order)
                         IN  IF res.panic
                             THEN /\ panicked' = TRUE
                                  /\ queue' = rest
                                  /\ UNCHANGED <<db, slaves, clients, out, executed>>
                             ELSE /\ Len(rest) + Len(res.events) <= ChannelCapacity
                                  /\ queue' = Publish(rest, res.events)
                                  /\ db' = res.db
                                  /\ out' = WriteAll(out, cl.writer,
                                                     ResponseWrites(res.responses), "reply")
                                  /\ executed' = Append(executed,
                                        [client_id |-> ev.client_id, writer |-> cl.writer,
                                         command |-> ev.command, time |-> now, role |-> role,
                                         responses |-> ResponseWrites(res.responses)])
                                  /\ UNCHANGED <<slaves, clients, panicked>>
                    ELSE /\ queue' = rest
                         /\ db' = execute(ev.command, db, config, role, master_host,
                                          master_port, slaves, 0, now, order).db
                         /\ UNCHANGED <<slaves, clients, panicked, out, executed>>
              [] ev.type = "SlaveConnected" ->
                    /\ queue' = rest
                    /\ IF ev.addr \in DOMAIN clients
                       THEN /\ slaves' = register_slave(slaves, ev.addr)
                            /\ UNCHANGED clients
                       ELSE IF connect_ok
                       THEN /\ clients' = Insert(clients, ev.addr,
                                                 [writer |-> DialedSocket, addr |-> ev.addr])
                            /\ slaves' = register_slave(slaves, ev.addr)
                       ELSE UNCHANGED <<clients, slaves>>
                    /\ UNCHANGED <<db, panicked, out, executed>>
              [] ev.type = "SlaveDisconnected" ->
                    /\ queue' = rest
                    /\ UNCHANGED <<db, slaves, clients, panicked, out, executed>>
              [] ev.type = "PropagateSlave" ->
                    /\ queue' = rest
                    /\ out' = Fanout(out, slaves, clients, 1, ev.message)
                    /\ UNCHANGED <<db, slaves, clients, panicked, executed>>
    /\ UNCHANGED <<pending, loaderVars, now, phase, config, role, master_host, master_port,
                   connState, connPort, wire, reader, linkVars, published, rejected,
                   script, sentCount>>

HandleEvent ==
    /\ phase = "serving"
    /\ ~panicked
    /\ pending = <<>>
    /\ queue # <<>>
    /\ \E order \in KeyOrderChoices(Head(queue)), connect_ok \in ConnectChoices(Head(queue)) :
        LET ev == Head(queue)
            rest == Tail(queue)
        IN  CASE ev.type = "ClientConnected" ->
                    /\ clients' = Insert(clients, ev.client_id,
                                         [writer |-> ev.writer, addr |-> ev.addr])
                    /\ queue' = rest
                    /\ UNCHANGED <<db, slaves, panicked, out, executed>>
              [] ev.type = "ClientDisconnected" ->
                    /\ clients' = [k \in DOMAIN clients \ {ev.client_id} |-> clients[k]]
                    /\ queue' = rest
                    /\ UNCHANGED <<db, slaves, panicked, out, executed>>
              [] ev.type = "CommandReceived" ->
                    IF ev.client_id \in DOMAIN clients
                    THEN LET cl == clients[ev.client_id]
                             res == execute(ev.command, db, config, role, master_host,
                                            master_port, slaves, cl.addr, now, order)
                         IN  IF res.panic
                             THEN /\ panicked' = TRUE
                                  /\ queue' = rest
                                  /\ UNCHANGED <<db, slaves, clients, out, executed>>
                             ELSE /\ Len(rest) + Len(res.events) <= ChannelCapacity
                                  /\ queue' = Publish(rest, res.events)
                                  /\ db' = res.db
                                  /\ out' = WriteAll(out, cl.writer,
                                                     ResponseWrites(res.responses), "reply")
                                  /\ executed' = Append(executed,
                                        [client_id |-> ev.client_id, writer |-> cl.writer,
                                         command |-> ev.command, time |-> now, role |-> role,
                                         responses |-> ResponseWrites(res.responses)])
                                  /\ UNCHANGED <<slaves, clients, panicked>>
                    ELSE /\ queue' = rest
                         /\ UNCHANGED <<db, slaves, clients, panicked, out, executed>>
              [] ev.type = "SlaveConnected" ->
                    /\ queue' = rest
                    /\ IF ev.addr \in DOMAIN clients
                       THEN /\ slaves' = register_slave(slaves, ev.addr)
                            /\ UNCHANGED clients
                       ELSE IF connect_ok
                       THEN /\ clients' = Insert(clients, ev.addr,
                                                 [writer |-> DialedSocket, addr |-> ev.addr])
                            /\ slaves' = register_slave(slaves, ev.addr)
                       ELSE UNCHANGED <<clients, slaves>>
                    /\ UNCHANGED <<db, panicked, out, executed>>
              [] ev.type = "SlaveDisconnected" ->
                    /\ queue' = rest
                    /\ UNCHANGED <<db, slaves, clients, panicked, out, executed>>
              [] ev.type = "PropagateSlave" ->
                    /\ queue' = rest
                    /\ out' = Fanout(out, slaves, clients, 1, ev.message)
                    /\ UNCHANGED <<db, slaves, clients, panicked, executed>>
    /\ UNCHANGED <<pending, loaderVars, now, phase, config, role, master_host, master_port,
                   connState, connPort, wire, reader, linkVars, published, rejected,
                   script, sentCount>>

(***************************************************************************)
(* The acceptor and the per-connection reader tasks (main.rs 100-138), and *)
(* the peers of the accepted sockets.                                      *)
(***************************************************************************)
\* an acceptor that adds the client record itself instead of publishing
\* ClientConnected
Accept_Registers(c, p) ==
    /\ phase = "serving"
    /\ ~panicked
    /\ connState[c] = "free"
    /\ \A b \in Conns : b < c => connState[b] # "free"
    /\ \A b \in Conns : connState[b] = "open" => connPort[b] # p
    /\ \A q \in Ports : q < p => \E b \in Conns : connState[b] # "free" /\ connPort[b] = q
    /\ connState' = [connState EXCEPT ![c] = "open"]
    /\ connPort' = [connPort EXCEPT ![c] = p]
    /\ reader' = [reader EXCEPT ![c] = "running"]
    /\ clients' = Insert(clients, p, [writer |-> c, addr |-> p])
    /\ UNCHANGED <<pending, loaderVars, now, phase, queue, config, db, role, master_host, master_port, slaves,
                   panicked, wire, out, linkVars, historyVars>>

\* an acceptor that starts the reader without publishing ClientConnected
Accept_NoEvent(c, p) ==
    /\ phase = "serving"
    /\ ~panicked
    /\ connState[c] = "free"
    /\ \A b \in Conns : b < c => connState[b] # "free"
    /\ \A b \in Conns : connState[b] = "open" => connPort[b] # p
    /\ \A q \in Ports : q < p => \E b \in Conns : connState[b] # "free" /\ connPort[b] = q
    /\ connState' = [connState EXCEPT ![c] = "open"]
    /\ connPort' = [connPort EXCEPT ![c] = p]
    /\ reader' = [reader EXCEPT ![c] = "running"]
    /\ UNCHANGED <<pending, loaderVars, now, phase, queue, serverVars, wire, out, linkVars,
                   historyVars>>

\* accept: socket c (the sockets are taken in order) from peer port p, which
\* no socket that is still open uses.  Ports are only compared, so a port
\* that was never used before is the least such port.
Accept(c, p) ==
    /\ phase = "serving"
    /\ ~panicked
    /\ connState[c] = "free"
    /\ \A b \in Conns : b < c => connState[b] # "free"
    /\ \A b \in Conns : connState[b] = "open" => connPort[b] # p
    /\ \A q \in Ports : q < p => \E b \in Conns : connState[b] # "free" /\ connPort[b] = q
    /\ Len(queue) < ChannelCapacity
    /\ connState' = [connState EXCEPT ![c] = "open"]
    /\ connPort' = [connPort EXCEPT ![c] = p]
    /\ reader' = [reader EXCEPT ![c] = "running"]
    /\ queue' = Publish(queue, <<ClientConnected(p, c, p)>>)
    /\ UNCHANGED <<pending, loaderVars, now, phase, serverVars, wire, out, linkVars, historyVars>>

\* accept of socket c from a peer at any loopback address (127.0.0.1,
\* 127.0.0.2, ...): its port p may be the port of a socket that is open,
\* and the client id is the port alone (main.rs 103)
AcceptFrom(c, p) ==
    /\ phase = "serving"
    /\ ~panicked
    /\ connState[c] = "free"
    /\ \A b \in Conns : b < c => connState[b] # "free"
    /\ Len(queue) < ChannelCapacity
    /\ connState' = [connState EXCEPT ![c] = "open"]
    /\ connPort' = [connPort EXCEPT ![c] = p]
    /\ reader' = [reader EXCEPT ![c] = "running"]
    /\ queue' = Publish(queue, <<ClientConnected(p, c, p)>>)
    /\ UNCHANGED <<pending, loaderVars, now, phase, serverVars, wire, out, linkVars, historyVars>>

\* the peer of socket c writes bytes, which stay on the wire until read
PeerWrite(c, bytes) ==
    /\ connState[c] = "open"
    /\ wire' = [wire EXCEPT ![c] = @ \o bytes]
    /\ script' = [script EXCEPT ![c] = Append(@, bytes)]
    /\ sentCount' = sentCount + 1
    /\ UNCHANGED <<pending, loaderVars, now, phase, queue, serverVars, connState, connPort, out, reader,
                   linkVars, executed, published, rejected>>

\* the peer of socket c closes it
PeerClose(c) ==
    /\ connState[c] = "open"
    /\ connState' = [connState EXCEPT ![c] = "closed"]
    /\ UNCHANGED <<pending, loaderVars, now, phase, queue, serverVars, connPort, wire, out, reader,
                   linkVars, historyVars>>

\* one turn of the reader's loop on the bytes data that read returned: they
\* are parsed as one message and the command is published (the task waits
\* while the channel is full); a parse error is logged (eprintln) and the
\* loop continues
ReaderTurn(c, data) ==
    LET parsed == parse_message(data)
    IN  IF parsed.ok
        THEN /\ Len(queue) < ChannelCapacity
             /\ queue' = Publish(queue, <<CommandReceived(connPort[c], parsed.cmd)>>)
             /\ published' = [published EXCEPT ![c] = Append(@, parsed.cmd)]
             /\ UNCHANGED rejected
        ELSE /\ rejected' = [rejected EXCEPT ![c] = Append(@, parsed.err)]
             /\ UNCHANGED <<queue, published>>

\* read returns the next n bytes of the wire
ReaderRead(c, n) ==
    /\ ~panicked
    /\ reader[c] = "running"
    /\ n >= 1 /\ n <= Len(wire[c]) /\ n <= ReadBufferSize
    /\ ReaderTurn(c, SubSeq(wire[c], 1, n))
    /\ wire' = [wire EXCEPT ![c] = SubSeq(@, n + 1, Len(@))]
    /\ UNCHANGED <<pending, loaderVars, now, phase, serverVars, connState, connPort, out, reader,
                   linkVars, executed, script, sentCount>>

\* read returns exactly the bytes data that the peer writes now (one write
\* of the peer, one read of the reader)
ReaderReceive(c, data) ==
    /\ ~panicked
    /\ reader[c] = "running"
    /\ connState[c] = "open"
    /\ wire[c] = ""
    /\ Len(data) >= 1 /\ Len(data) <= ReadBufferSize
    /\ ReaderTurn(c, data)
    /\ script' = [script EXCEPT ![c] = Append(@, data)]
    /\ sentCount' = sentCount + 1
    /\ UNCHANGED <<pending, loaderVars, now, phase, serverVars, connVars, linkVars, executed>>

\* read returns 0 (the peer closed and everything was read): the task ends
ReaderEof(c) ==
    /\ ~panicked
    /\ reader[c] = "running"
    /\ connState[c] = "closed"
    /\ wire[c] = ""
    /\ reader' = [reader EXCEPT ![c] = "done"]
    /\ UNCHANGED <<pending, loaderVars, now, phase, queue, serverVars, connState, connPort, wire, out,
                   linkVars, historyVars>>

\* time passes
Tick ==
    /\ now < MaxTime
    /\ now' = now + 1
    /\ UNCHANGED <<pending, loaderVars, phase, queue, serverVars, connVars, linkVars, historyVars>>

(***************************************************************************)
(* The snapshot decoder (rdb_parser.rs).  A file is a sequence of bytes,   *)
(* 0..255.  The type RdbParser that config_handler.rs names is not in the  *)
(* source tree (RdbParse above stands for it); run is the decoder that is. *)
(***************************************************************************)
MAGIC_NUMBER == <<82, 69, 68, 73, 83>>
OPCODE_META == 250
OPCODE_START_DB == 254
OPCODE_EOF_BYTE == 255

LowerCase == "abcdefghijklmnopqrstuvwxyz"
UpperCase == "ABCDEFGHIJKLMNOPQRSTUVWXYZ"

\* the character of byte b, as String::from_utf8_lossy gives it; the model
\* writes the byte 0xFF as "\f" and any other byte outside the letters and
\* digits as "?"
CharOf(b) ==
    IF b >= 97 /\ b <= 122 THEN Char(LowerCase, b - 96)
    ELSE IF b >= 65 /\ b <= 90 THEN Char(UpperCase, b - 64)
    ELSE IF b >= 48 /\ b <= 57 THEN Digits[b - 47]
    ELSE IF b = OPCODE_EOF_BYTE THEN OPCODE_EOF
    ELSE "?"

RECURSIVE Str(_)
Str(bytes) == IF bytes = <<>> THEN "" ELSE CharOf(Head(bytes)) \o Str(Tail(bytes))

\* the byte of a character of the model's strings
ByteOf(ch) ==
    IF \E i \in 1..26 : Char(LowerCase, i) = ch
    THEN 96 + (CHOOSE i \in 1..26 : Char(LowerCase, i) = ch)
    ELSE IF \E i \in 1..26 : Char(UpperCase, i) = ch
    THEN 64 + (CHOOSE i \in 1..26 : Char(UpperCase, i) = ch)
    ELSE IF IsDigit(ch) THEN 48 + DigitValue(ch)
    ELSE IF ch = OPCODE_EOF THEN OPCODE_EOF_BYTE
    ELSE 63

Bytes(s) == [i \in 1..Len(s) |-> ByteOf(Char(s, i))]

\* ReadBytesExt::read_uN::<BigEndian> and ::<LittleEndian> of the bytes
RECURSIVE BigEndian(_)
BigEndian(bytes) ==
    IF bytes = <<>> THEN 0
    ELSE 256 * BigEndian(SubSeq(bytes, 1, Len(bytes) - 1)) + bytes[Len(bytes)]

RECURSIVE LittleEndian(_)
LittleEndian(bytes) ==
    IF bytes = <<>> THEN 0 ELSE Head(bytes) + 256 * LittleEndian(Tail(bytes))

\* the 8 bits of a byte and the bits of a sequence of bytes, first bit first
BitsOfByte(b) == [k \in 1..8 |-> (b \div (2 ^ (8 - k))) % 2]

RECURSIVE Bits(_)
Bits(bytes) == IF bytes = <<>> THEN <<>> ELSE BitsOfByte(Head(bytes)) \o Bits(Tail(bytes))

\* CRC_64_ECMA_182 of the crc crate: width 64, polynomial 42F0E1EBA9EA3693,
\* initial value 0, no reflection, no final xor; the 64 bits, first bit first
CRC_64_ECMA_182 ==
    << 0,1,0,0,0,0,1,0, 1,1,1,1,0,0,0,0, 1,1,1,0,0,0,0,1, 1,1,1,0,1,0,1,1,
       1,0,1,0,1,0,0,1, 1,1,1,0,1,0,1,0, 0,0,1,1,0,1,1,0, 1,0,0,1,0,0,1,1 >>

Xor(a, b) == [k \in 1..Len(a) |-> (a[k] + b[k]) % 2]

\* one step of the register for one bit of input
CrcStep(reg, bit) ==
    LET shifted == Tail(reg) \o <<0>>
    IN  IF (reg[1] + bit) % 2 = 1 THEN Xor(shifted, CRC_64_ECMA_182) ELSE shifted

\* the register after the 8 bits of byte b
CrcByte(reg, b) ==
    LET bits == BitsOfByte(b)
    IN  CrcStep(CrcStep(CrcStep(CrcStep(CrcStep(CrcStep(CrcStep(CrcStep(reg,
            bits[1]), bits[2]), bits[3]), bits[4]), bits[5]), bits[6]), bits[7]), bits[8])

\* the register, which always holds 64 bits, after the bytes from the i-th on
RECURSIVE CrcBytes(_, _, _)
CrcBytes(reg, bytes, i) ==
    IF i > Len(bytes) THEN reg
    ELSE LET next == CrcByte(reg, bytes[i])
         IN  IF Len(next) = 64 THEN CrcBytes(next, bytes, i + 1) ELSE next

\* Crc::checksum: the 64 bits of the checksum of the bytes
checksum(bytes) == CrcBytes([k \in 1..64 |-> 0], bytes, 1)

\* read_length_or_integer on the bytes of file from position pos on, after
\* the first byte was read: [ok, value, pos]; an error when the file ends
\* (read_u8, read_u16, read_u32) and for an unsupported encoding
read_length_or_integer(file, pos, first_byte) ==
    LET err == [ok |-> FALSE, value |-> 0, pos |-> pos]
        int(n) == IF pos + n - 1 <= Len(file)
                  THEN [ok |-> TRUE, value |-> BigEndian(SubSeq(file, pos, pos + n - 1)),
                        pos |-> pos + n]
                  ELSE err
    IN  CASE first_byte \div 64 = 0 -> [ok |-> TRUE, value |-> first_byte % 64, pos |-> pos]
          [] first_byte \div 64 = 1 ->
                IF pos <= Len(file)
                THEN [ok |-> TRUE, value |-> (first_byte % 64) * 256 + file[pos], pos |-> pos + 1]
                ELSE err
          [] first_byte \div 64 = 2 -> int(4)
          [] OTHER -> CASE first_byte % 64 = 0 -> int(1)
                        [] first_byte % 64 = 1 -> int(2)
                        [] first_byte % 64 = 2 -> int(4)
                        [] OTHER -> err

\* ValueEntry::new(value, ex, px) of the decoder's two insert sites: the
\* entry with the expiration instant in milliseconds
ValueEntryNew(value, ex, px) ==
    [value |-> value,
     expiration |-> IF px # NoneU64 THEN px ELSE IF ex # NoneU64 THEN ex * 1000 ELSE NoneU64]

\* read_u8 of the length and read_exact of that many bytes, from pos on:
\* [ok, bytes, pos]
ReadShortString(file, pos) ==
    IF pos <= Len(file) /\ pos + file[pos] <= Len(file)
    THEN [ok |-> TRUE, bytes |-> SubSeq(file, pos + 1, pos + file[pos]), pos |-> pos + 1 + file[pos]]
    ELSE [ok |-> FALSE, bytes |-> <<>>, pos |-> pos]

\* the arms of the decoder's loop, for the marker at position pos - 1:
\* [ok, stop, pos, db]: ok is FALSE for a returned error, stop says that the
\* loop ends (break), db holds what was inserted so far
MetaArm(file, pos, d) ==
    LET err == [ok |-> FALSE, stop |-> TRUE, pos |-> pos, db |-> d]
    IN  IF pos > Len(file) THEN err
        ELSE LET key_length == read_length_or_integer(file, pos + 1, file[pos])
             IN  IF ~key_length.ok \/ key_length.pos + key_length.value > Len(file) THEN err
                 ELSE LET vpos == key_length.pos + key_length.value
                          first_value_byte == file[vpos]
                          value == read_length_or_integer(file, vpos + 1, first_value_byte)
                      IN  IF ~value.ok THEN err
                          ELSE IF first_value_byte \div 64 = 3
                          THEN [ok |-> TRUE, stop |-> FALSE, pos |-> value.pos, db |-> d]
                          ELSE IF value.pos + value.value - 1 > Len(file) THEN err
                          ELSE [ok |-> TRUE, stop |-> FALSE, pos |-> value.pos + value.value,
                                db |-> d]

ExpiryArm(file, pos, d, marker) ==
    LET err == [ok |-> FALSE, stop |-> TRUE, pos |-> pos, db |-> d]
        width == IF marker = 253 THEN 4 ELSE 8
    IN  IF pos + width > Len(file) THEN err
        ELSE LET expiration == LittleEndian(SubSeq(file, pos, pos + width - 1))
                 key == ReadShortString(file, pos + width + 1)
                 value == ReadShortString(file, key.pos)
             IN  IF ~key.ok \/ ~value.ok THEN err
                 ELSE [ok |-> TRUE, stop |-> FALSE, pos |-> value.pos,
                       db |-> Insert(d, Str(key.bytes),
                                     ValueEntryNew(Str(value.bytes),
                                                   IF marker = 253 THEN expiration ELSE NoneU64,
                                                   IF marker = 252 THEN expiration ELSE NoneU64))]

StringArm(file, pos, d) ==
    LET key == ReadShortString(file, pos)
        value == ReadShortString(file, key.pos)
    IN  IF ~key.ok \/ ~value.ok THEN [ok |-> FALSE, stop |-> TRUE, pos |-> pos, db |-> d]
        ELSE [ok |-> TRUE, stop |-> FALSE, pos |-> value.pos,
              db |-> Insert(d, Str(key.bytes), ValueEntryNew(Str(value.bytes), NoneU64, NoneU64))]

\* the OPCODE_EOF arm: read_exact of the 8 checksum bytes, then the checksum
\* of the whole file without its last 8 bytes against them
EofArm(file, pos, d) ==
    IF pos + 7 > Len(file) THEN [ok |-> FALSE, stop |-> TRUE, pos |-> pos, db |-> d]
    ELSE LET read_checksum == Bits(SubSeq(file, pos, pos + 7))
             calculated_checksum == checksum(SubSeq(file, 1, Len(file) - 8))
         IN  [ok |-> calculated_checksum = read_checksum, stop |-> TRUE, pos |-> pos + 8, db |-> d]

\* the loop of run from the marker at position pos on: [ok, db]
RECURSIVE DecodeLoop(_, _, _)
DecodeLoop(file, pos, d) ==
    IF pos > Len(file) THEN [ok |-> TRUE, db |-> d]
    ELSE LET marker == file[pos]
             arm == CASE marker = OPCODE_META -> MetaArm(file, pos + 1, d)
                      [] marker = OPCODE_START_DB ->
                            [ok |-> pos + 1 <= Len(file), stop |-> pos + 1 > Len(file),
                             pos |-> pos + 2, db |-> d]
                      [] marker = 251 ->
                            [ok |-> pos + 2 <= Len(file), stop |-> pos + 2 > Len(file),
                             pos |-> pos + 3, db |-> d]
                      [] marker \in {253, 252} -> ExpiryArm(file, pos + 1, d, marker)
                      [] marker = 0 -> StringArm(file, pos + 1, d)
                      [] marker = OPCODE_EOF_BYTE -> EofArm(file, pos + 1, d)
                      [] OTHER -> [ok |-> TRUE, stop |-> TRUE, pos |-> pos, db |-> d]
         IN  IF arm.stop THEN [ok |-> arm.ok, db |-> arm.db]
             ELSE DecodeLoop(file, arm.pos, arm.db)

\* run on the bytes of the file that the configuration names: [ok, db].
\* Without a directory or a file name nothing is read; a file that does not
\* start with the magic number is logged and left, without an error.
run(file, d, cfg) ==
    IF "dir" \notin DOMAIN cfg \/ "dbfilename" \notin DOMAIN cfg THEN [ok |-> TRUE, db |-> d]
    ELSE IF cfg["dir"] = "" \/ cfg["dbfilename"] = "" THEN [ok |-> TRUE, db |-> d]
    ELSE IF Len(file) < 5 THEN [ok |-> FALSE, db |-> d]
    ELSE IF SubSeq(file, 1, 5) # MAGIC_NUMBER THEN [ok |-> TRUE, db |-> d]
    ELSE IF Len(file) < 9 THEN [ok |-> FALSE, db |-> d]
    ELSE DecodeLoop(file, 10, d)

\* a loader that gives the keyspace back as it was when the decoder fails
LoadSnapshot_Discard ==
    /\ phase = "startup"
    /\ rdb_result = "none"
    /\ LET r == run(rdb_file, db, config)
       IN  /\ db' = IF r.ok THEN r.db ELSE db
           /\ rdb_result' = IF r.ok THEN "ok" ELSE "error"
    /\ phase' = "serving"
    /\ UNCHANGED <<now, queue, pending, rdb_file, length_input, length_result, config, role,
                   master_host, master_port,
                   slaves, clients, panicked, connVars, linkVars, historyVars>>

\* main at startup: the decoder runs on the snapshot file, its error is
\* logged, and the node goes on to serve
LoadSnapshot ==
    /\ phase = "startup"
    /\ rdb_result = "none"
    /\ LET r == run(rdb_file, db, config)
       IN  /\ db' = r.db
           /\ rdb_result' = IF r.ok THEN "ok" ELSE "error"
    /\ phase' = "serving"
    /\ UNCHANGED <<now, queue, pending, rdb_file, length_input, length_result, config, role,
                   master_host, master_port,
                   slaves, clients, panicked, connVars, linkVars, historyVars>>

\* the decoder reads a length: the first byte, then read_length_or_integer
\* on the bytes that follow it
ReadLength ==
    /\ phase = "startup"
    /\ length_input # <<>>
    /\ length_result = <<>>
    /\ length_result' = <<read_length_or_integer(length_input, 2, length_input[1])>>
    /\ UNCHANGED <<now, phase, queue, pending, rdb_file, rdb_result, length_input, serverVars,
                   connVars, linkVars, historyVars>>

(***************************************************************************)
(* The event loop and a producer that waits for room in the channel.       *)
(***************************************************************************)
\* handle_event of a command whose executor publishes an event, when the
\* channel is full and the reader of socket c waits in Sender::send with the
\* command of the request data: rx.recv frees one slot, the channel hands it
\* to the sender that waits, and the send of the executor (command.rs 114,
\* 197) finds the channel full.  The executor has written the keyspace and
\* has not returned, so no response is written; the event loop is the only
\* receiver and it waits in this send.
HandleEventRaced(c, data) ==
    /\ phase = "serving"
    /\ ~panicked
    /\ pending = <<>>
    /\ Len(queue) = ChannelCapacity
    /\ reader[c] = "running"
    /\ connState[c] = "open"
    /\ wire[c] = ""
    /\ Len(data) >= 1 /\ Len(data) <= ReadBufferSize
    /\ parse_message(data).ok
    /\ Head(queue).type = "CommandReceived"
    /\ Head(queue).client_id \in DOMAIN clients
    /\ LET ev == Head(queue)
           cl == clients[ev.client_id]
           res == execute(ev.command, db, config, role, master_host, master_port, slaves,
                          cl.addr, now, <<>>)
       IN  /\ ~res.panic
           /\ res.events # <<>>
           /\ db' = res.db
           /\ pending' = res.events
    /\ queue' = Publish(Tail(queue), <<CommandReceived(connPort[c], parse_message(data).cmd)>>)
    /\ published' = [published EXCEPT ![c] = Append(@, parse_message(data).cmd)]
    /\ script' = [script EXCEPT ![c] = Append(@, data)]
    /\ sentCount' = sentCount + 1
    /\ UNCHANGED <<now, phase, loaderVars, config, role, master_host, master_port, slaves,
                   clients, panicked, connVars, linkVars, executed, rejected>>

(***************************************************************************)
(* Initial states.                                                         *)
(***************************************************************************)
\* StateManager::new, ReplicationConfig::new, and no socket accepted yet
InitState(cfg) ==
    /\ now = 0
    /\ config = cfg
    /\ db = EmptyMap
    /\ role = "master"
    /\ master_host = ""
    /\ master_port = NoneU64
    /\ slaves = <<>>
    /\ clients = EmptyMap
    /\ queue = <<>>
    /\ panicked = FALSE
    /\ connState = [c \in Conns |-> "free"]
    /\ connPort = [c \in Conns |-> 0]
    /\ wire = [c \in Conns |-> ""]
    /\ out = [c \in Conns |-> <<>>]
    /\ reader = [c \in Conns |-> "none"]
    /\ linkIn = ""
    /\ linkOut = <<>>
    /\ masterPos = 0
    /\ size_str = ""
    /\ rdb_size = 0
    /\ stream = "none"
    /\ buffer = ""
    /\ executed = <<>>
    /\ published = [c \in Conns |-> <<>>]
    /\ rejected = [c \in Conns |-> <<>>]
    /\ script = [c \in Conns |-> <<>>]
    /\ heard = <<>>
    /\ rdb_buffer = ""
    /\ sentCount = 0
    /\ propagated = 0
    /\ pending = <<>>
    /\ rdb_result = "none"
    /\ length_result = <<>>

\* the configuration of a node started with --port only
PortConfig == [k \in {"port"} |-> "6379"]

(***************************************************************************)
(* Spec: a primary, its clients and the replicas that register with it.    *)
(* Each read of a reader returns what its peer wrote since the last read.  *)
(***************************************************************************)
PrimaryFrames ==
    { construct_redis_command(<<"SET", "a", "1">>),
      construct_redis_command(<<"SET", "b", "2">>),
      construct_redis_command(<<"REPLCONF", "listening-port", "6380">>) }

Init ==
    /\ InitState(PortConfig)
    /\ phase = "serving"
    /\ hs = "none"
    /\ rdb_file = <<>>
    /\ length_input = <<>>

Next ==
    \/ \E c \in Conns, p \in Ports : Accept(c, p)
    \/ \E c \in Conns, f \in PrimaryFrames : sentCount < MaxWrites /\ ReaderReceive(c, f)
    \/ \E c \in Conns : PeerClose(c)
    \/ HandleEvent

Spec == Init /\ [][Next]_vars

(***************************************************************************)
(* SpecKV: a primary and clients that SET and GET, while time passes.      *)
(***************************************************************************)
KVFrames ==
    { construct_redis_command(<<"SET", "k", "x">>),
      construct_redis_command(<<"SET", "k", "yy">>),
      construct_redis_command(<<"SET", "k", "z", "PX", "1">>),
      construct_redis_command(<<"GET", "k">>) }

NextKV ==
    \/ \E c \in 1..KVConns, p \in Ports : Accept(c, p)
    \/ \E c \in 1..KVConns, f \in KVFrames : sentCount < KVWrites /\ ReaderReceive(c, f)
    \/ HandleEvent
    \/ Tick

SpecKV == Init /\ [][NextKV]_vars

(***************************************************************************)
(* SpecPsync: a primary and peers that send PSYNC and REPLCONF GETACK      *)
(* requests.                                                               *)
(***************************************************************************)
PsyncFrames ==
    { construct_redis_command(<<"PSYNC", "?", "-1">>),
      construct_redis_command(<<"PSYNC", master_replid, "0">>),
      construct_redis_command(<<"PSYNC", master_replid, "7">>),
      construct_redis_command(<<"PSYNC", "?", "-5">>),
      construct_redis_command(<<"PSYNC", "?", "abc">>),
      construct_redis_command(<<"PSYNC", "?">>),
      construct_redis_command(<<"REPLCONF", "GETACK", "*">>) }

NextPsync ==
    \/ \E c \in Conns, p \in Ports : Accept(c, p)
    \/ \E c \in Conns, f \in PsyncFrames : sentCount < PsyncWrites /\ ReaderReceive(c, f)
    \/ HandleEvent

SpecPsync == Init /\ [][NextPsync]_vars

(***************************************************************************)
(* SpecClose: a primary and clients that connect, send PING and close;     *)
(* the reader of a closed connection reads end of file and ends.           *)
(***************************************************************************)
CloseFrames == { construct_redis_command(<<"PING">>) }

NextClose ==
    \/ \E c \in Conns, p \in Ports : Accept(c, p)
    \/ \E c \in Conns, f \in CloseFrames : sentCount < CloseWrites /\ ReaderReceive(c, f)
    \/ \E c \in Conns : PeerClose(c)
    \/ \E c \in Conns : ReaderEof(c)
    \/ HandleEvent

SpecClose == Init /\ [][NextClose]_vars

(***************************************************************************)
(* SpecQueue: a primary and one client that sends a SET and then PINGs     *)
(* faster than the event loop handles them.                                *)
(***************************************************************************)
QueueFrame ==
    IF sentCount = 0 THEN construct_redis_command(<<"SET", "a", "1">>)
    ELSE construct_redis_command(<<"PING">>)

NextQueue ==
    \/ \E p \in Ports : Accept(1, p)
    \/ sentCount < QueueWrites /\ ReaderReceive(1, QueueFrame)
    \/ HandleEvent
    \/ sentCount < QueueWrites /\ HandleEventRaced(1, QueueFrame)

SpecQueue == Init /\ [][NextQueue]_vars

(***************************************************************************)
(* SpecRdb: a node started with --dir and --dbfilename decodes the         *)
(* snapshot file and then serves.  The files are the header followed by up *)
(* to MaxSections sections and one of the endings: nothing, the end marker *)
(* alone, the end marker with eight zero bytes, the end marker with the    *)
(* checksum of what precedes it; and a file that is not a snapshot.        *)
(***************************************************************************)
RdbConfig == [dir |-> "tmp", dbfilename |-> "dump", port |-> "6379"]

RdbHeader == MAGIC_NUMBER \o <<48, 48, 48, 57>>

RdbSections ==
    { <<OPCODE_START_DB, 0>>,
      <<251, 1, 0>>,
      <<0>> \o <<3>> \o Bytes("foo") \o <<3>> \o Bytes("bar"),
      <<252, 5, 0, 0, 0, 0, 0, 0, 0, 0>> \o <<1>> \o Bytes("k") \o <<1>> \o Bytes("v"),
      <<OPCODE_META>> \o <<3>> \o Bytes("ver") \o <<1>> \o Bytes("7"),
      <<0, 3>> \o Bytes("f") }

RECURSIVE RdbBodies(_)
RdbBodies(n) ==
    IF n = 0 THEN { <<>> }
    ELSE RdbBodies(n - 1) \cup { b \o sec : b \in RdbBodies(n - 1), sec \in RdbSections }

\* the 8 bytes of 64 bits
BytesOfBits(bits) ==
    [i \in 1..8 |-> bits[8*i-7] * 128 + bits[8*i-6] * 64 + bits[8*i-5] * 32 + bits[8*i-4] * 16 +
                    bits[8*i-3] * 8 + bits[8*i-2] * 4 + bits[8*i-1] * 2 + bits[8*i]]

Sealed(content) == content \o BytesOfBits(checksum(content))

RdbFiles ==
    LET open == { RdbHeader \o b : b \in RdbBodies(MaxSections) }
        ended == { f \o <<OPCODE_EOF_BYTE>> : f \in open }
    IN  open \cup ended
        \cup { f \o <<0, 0, 0, 0, 0, 0, 0, 0>> : f \in ended }
        \cup { Sealed(f) : f \in ended }
        \cup { Bytes("HELLO"), Bytes("RED") }

RdbFrames == { construct_redis_command(<<"GET", "foo">>) }

InitRdb ==
    /\ InitState(RdbConfig)
    /\ phase = "startup"
    /\ hs = "none"
    /\ rdb_file \in RdbFiles
    /\ length_input = <<>>

NextRdb ==
    \/ LoadSnapshot
    \/ \E p \in Ports : Accept(1, p)
    \/ \E f \in RdbFrames : sentCount < RdbWrites /\ ReaderReceive(1, f)
    \/ HandleEvent

SpecRdb == InitRdb /\ [][NextRdb]_vars

(***************************************************************************)
(* SpecReader: one client whose requests reach the reader task in reads of *)
(* any size: a read returns the bytes that have arrived so far, which may  *)
(* be part of a request or several requests.                               *)
(***************************************************************************)
ValidRequests ==
    { construct_redis_command(<<"PING">>),
      construct_redis_command(<<"GET", "k">>) }

\* an unknown command, a wrong arity, a bad option value, and a request that
\* is not a RESP array
InvalidRequests ==
    { construct_redis_command(<<"FOO">>),
      construct_redis_command(<<"GET">>),
      construct_redis_command(<<"SET", "k", "v", "PX", "x">>),
      "PING\r\n" }

NextReader ==
    \/ \E p \in Ports : Accept(1, p)
    \/ \E f \in ValidRequests \cup InvalidRequests :
          sentCount < ReaderWrites /\ PeerWrite(1, f)
    \/ \E n \in 1..Len(wire[1]) :
          Len(published[1]) + Len(rejected[1]) < ReaderReads /\ ReaderRead(1, n)
    \/ HandleEvent

SpecReader == Init /\ [][NextReader]_vars

(***************************************************************************)
(* The replica side (config_handler.rs): configure_replication and         *)
(* handshake_with_master run in main before the listener is bound; the     *)
(* stream task they spawn reads the link from then on.                     *)
(***************************************************************************)
\* the configuration of a node started with --port 6380 --replicaof "localhost 6379"
ReplicaConfig ==
    [k \in {"port", "replica_of_host", "replica_of_port"} |->
        CASE k = "port" -> "6380"
          [] k = "replica_of_host" -> "localhost"
          [] k = "replica_of_port" -> "6379"]

\* ConfigHandler::get_port
get_port(cfg) ==
    IF "port" \in DOMAIN cfg /\ ParseUnsigned(cfg["port"]) # NoneU64
    THEN ParseUnsigned(cfg["port"]) ELSE 6379

\* the handshake's sends in the order of the steps, with PING and PSYNC swapped
handshake_command_Swapped(step, port) ==
    CASE step = 1 -> <<PSYNC_COMMAND, "?", "-1">>
      [] step = 2 -> <<REPLCONF_COMMAND, "listening-port", Decimal(port)>>
      [] step = 3 -> <<REPLCONF_COMMAND, "capa", "psync2">>
      [] step = 4 -> <<PING_COMMAND>>

\* the arguments of the send_command_with_writer call of each handshake step
handshake_command(step, port) ==
    CASE step = 1 -> <<PING_COMMAND>>
      [] step = 2 -> <<REPLCONF_COMMAND, "listening-port", Decimal(port)>>
      [] step = 3 -> <<REPLCONF_COMMAND, "capa", "psync2">>
      [] step = 4 -> <<PSYNC_COMMAND, "?", "-1">>

\* the word that the expect_*_response of each step looks for
expected_word(step) ==
    CASE step = 1 -> "PONG"
      [] step = 2 -> "OK"
      [] step = 3 -> "OK"
      [] step = 4 -> "FULLRESYNC"

\* expect_pong_response, expect_ok_response, expect_fullresync_response:
\* the test of the bytes that the one read returned
expect_response(response, word) ==
    Contains(response, SIMPLE_STRING_PREFIX) /\ Contains(response, word)

\* respond_with_ack
ack_response == "*3\r\n$8\r\nREPLCONF\r\n$3\r\nACK\r\n$1\r\n0\r\n"

\* the handshake's position while step's reply is awaited, and the step of a position
StepState(step) ==
    CASE step = 1 -> "ping_sent"
      [] step = 2 -> "port_sent"
      [] step = 3 -> "capa_sent"
      [] step = 4 -> "psync_sent"

StepOf(h) == CHOOSE step \in 1..4 : StepState(step) = h

\* RdbParser::new(reader, db).parse() on the bytes of the snapshot frame:
\* the empty snapshot (magic, version, EOF opcode) decodes to zero keys with
\* no error; a payload without the magic or cut short is an error.
RdbParse(payload) ==
    IF Len(payload) = 10 /\ StartsWith(payload, "REDIS") /\ Char(payload, 10) = OPCODE_EOF
    THEN [ok |-> TRUE, entries |-> EmptyMap]
    ELSE [ok |-> FALSE, entries |-> EmptyMap]

\* configure_replication up to the first send: set_replica_of, then
\* TcpStream::connect, which the primary accepts or refuses, then PING
Dial(connected) ==
    /\ phase = "startup"
    /\ hs = "none"
    /\ "replica_of_host" \in DOMAIN config /\ config["replica_of_host"] # ""
    /\ "replica_of_port" \in DOMAIN config /\ config["replica_of_port"] # ""
    /\ role' = "slave"
    /\ master_host' = config["replica_of_host"]
    /\ master_port' = ParseUnsigned(config["replica_of_port"])
    /\ IF connected
       THEN /\ linkOut' = Append(linkOut,
                                 construct_redis_command(handshake_command(1, get_port(config))))
            /\ hs' = StepState(1)
       ELSE /\ hs' = "failed"
            /\ UNCHANGED linkOut
    /\ UNCHANGED <<pending, loaderVars, now, phase, queue, config, db, slaves, clients, panicked, connVars,
                   linkIn, masterPos, size_str, rdb_size, stream, buffer, heard,
                   rdb_buffer, propagated, historyVars>>

\* expect_*_response of the step whose reply is awaited: one read, which
\* returns the n bytes that have arrived, then the next send.  When the
\* handshake returns an error its locals are dropped: the socket is closed
\* and what it held is lost.
Expect(n) ==
    /\ phase = "startup"
    /\ hs \in {StepState(step) : step \in 1..4}
    /\ n >= 1 /\ n <= Len(linkIn) /\ n <= ReadBufferSize
    /\ LET step == StepOf(hs)
           response == SubSeq(linkIn, 1, n)
       IN  /\ IF ~expect_response(response, expected_word(step))
              THEN /\ hs' = "failed"
                   /\ linkIn' = ""
                   /\ heard' = <<>>
                   /\ UNCHANGED linkOut
              ELSE IF step < 4
              THEN /\ linkOut' = Append(linkOut,
                          construct_redis_command(handshake_command(step + 1, get_port(config))))
                   /\ hs' = StepState(step + 1)
                   /\ linkIn' = SubSeq(linkIn, n + 1, Len(linkIn))
                   /\ heard' = Append(heard, response)
              ELSE /\ hs' = "rdb_size"
                   /\ linkIn' = SubSeq(linkIn, n + 1, Len(linkIn))
                   /\ heard' = Append(heard, response)
                   /\ UNCHANGED linkOut
    /\ UNCHANGED <<pending, loaderVars, now, phase, queue, serverVars, connVars, masterPos, size_str, rdb_size,
                   stream, buffer, rdb_buffer, propagated, historyVars>>

\* The size loop on the bytes that have arrived: read_exact of one byte per
\* turn, and of the byte after a "\r".  [taken, size_str, state, rdb_size]:
\* taken bytes were read, and the loop ended with the size ("rdb_body"),
\* ended with an error ("failed") or waits for more bytes ("rdb_size").
SizeLoop(arrived, none_taken, size_so_far) ==
    LET Z[bytes \in STRING, taken \in Nat, str \in STRING] ==
            IF taken >= Len(bytes)
            THEN [taken |-> taken, size_str |-> str, state |-> "rdb_size", rdb_size |-> 0]
            ELSE IF Char(bytes, taken + 1) = "$" THEN Z[bytes, taken + 1, str]
            ELSE IF Char(bytes, taken + 1) = "\r"
            THEN IF taken + 2 > Len(bytes)
                 THEN [taken |-> taken, size_str |-> str, state |-> "rdb_size", rdb_size |-> 0]
                 ELSE IF Char(bytes, taken + 2) = "\n" /\ ParseUnsigned(str) # NoneU64
                 THEN [taken |-> taken + 2, size_str |-> str, state |-> "rdb_body",
                       rdb_size |-> ParseUnsigned(str)]
                 ELSE [taken |-> taken + 2, size_str |-> str, state |-> "failed",
                       rdb_size |-> 0]
            ELSE Z[bytes, taken + 1, str \o Char(bytes, taken + 1)]
    IN  Z[arrived, none_taken, size_so_far]

\* the size loop runs on what has arrived, until it ends or has to wait
ReadSize ==
    /\ phase = "startup"
    /\ hs = "rdb_size"
    /\ LET r == SizeLoop(linkIn, 0, size_str)
       IN  /\ r.taken > 0
           /\ hs' = r.state
           /\ rdb_size' = r.rdb_size
           /\ IF r.state = "failed"
              THEN /\ linkIn' = ""
                   /\ size_str' = ""
                   /\ heard' = <<>>
              ELSE /\ linkIn' = SubSeq(linkIn, r.taken + 1, Len(linkIn))
                   /\ size_str' = r.size_str
                   /\ UNCHANGED heard
    /\ UNCHANGED <<pending, loaderVars, now, phase, queue, serverVars, connVars, linkOut, masterPos, stream,
                   buffer, rdb_buffer, propagated, historyVars>>

\* read_exact of the rdb_size bytes of the snapshot, RdbParser::parse,
\* respond_with_ack, set_replica_of, and the spawn of the stream task
ReadRdb ==
    /\ phase = "startup"
    /\ hs = "rdb_body"
    /\ Len(linkIn) >= rdb_size
    /\ LET parsed == RdbParse(SubSeq(linkIn, 1, rdb_size))
       IN  /\ IF parsed.ok
              THEN /\ db' = [k \in DOMAIN db \cup DOMAIN parsed.entries |->
                                IF k \in DOMAIN parsed.entries THEN parsed.entries[k] ELSE db[k]]
                   /\ linkOut' = Append(linkOut, ack_response)
                   /\ role' = "slave"
                   /\ hs' = "streaming"
                   /\ stream' = "running"
                   /\ linkIn' = SubSeq(linkIn, rdb_size + 1, Len(linkIn))
                   /\ rdb_buffer' = SubSeq(linkIn, 1, rdb_size)
                   /\ UNCHANGED <<size_str, rdb_size, heard>>
              ELSE /\ hs' = "failed"
                   /\ linkIn' = ""
                   /\ size_str' = ""
                   /\ rdb_size' = 0
                   /\ heard' = <<>>
                   /\ UNCHANGED <<db, linkOut, role, stream, rdb_buffer>>
    /\ UNCHANGED <<pending, loaderVars, now, phase, queue, config, master_host, master_port, slaves, clients,
                   panicked, connVars, masterPos, buffer, propagated, historyVars>>

\* a main that binds the listener without waiting for configure_replication
StartServing_Early ==
    /\ phase = "startup"
    /\ phase' = "serving"
    /\ UNCHANGED <<pending, loaderVars, now, queue, serverVars, connVars, linkVars, historyVars>>

\* main after configure_replication returned: the listener is bound, the
\* event loop and the acceptor are spawned
StartServing ==
    /\ phase = "startup"
    /\ hs \in {"streaming", "failed"}
    /\ phase' = "serving"
    /\ UNCHANGED <<pending, loaderVars, now, queue, serverVars, connVars, linkVars, historyVars>>

\* The inner loop of the scan, over the bulk strings of the frame whose
\* first bulk string starts at array_end (positions count from 1):
\* [complete, spin, array_end]; spin says that the loop cannot end.
ScanElements(buffer_bytes, first_element, expected, first_end) ==
    LET E[buf \in STRING, elements \in Nat, expected_elements \in Nat, array_end \in Nat] ==
            IF ~(elements < expected_elements /\ array_end <= Len(buf))
            THEN [complete |-> FALSE, spin |-> FALSE, array_end |-> array_end]
            ELSE IF Char(buf, array_end) # "$"
            THEN [complete |-> FALSE, spin |-> FALSE, array_end |-> array_end]
            ELSE LET cr == Position(buf, "\r", array_end + 1)
                     len == IF cr = 0 THEN NoneU64
                            ELSE ParseUnsigned(SubSeq(buf, array_end + 1, cr - 1))
                 IN  IF len = NoneU64
                     THEN [complete |-> FALSE, spin |-> TRUE, array_end |-> array_end]
                     ELSE IF elements + 1 = expected_elements
                             /\ cr + 2 + len + 2 <= Len(buf) + 1
                     THEN [complete |-> TRUE, spin |-> FALSE, array_end |-> cr + 2 + len + 2]
                     ELSE E[buf, elements + 1, expected_elements, cr + 2 + len + 2]
    IN  E[buffer_bytes, first_element, expected, first_end]

\* The scan of the stream task's buffer: [cmds, pos, spin].  cmds are the
\* commands of the complete frames that parse, pos is where the scan
\* stopped, spin says that the inner loop cannot end.
Scan(buffer_bytes) ==
    LET S[buf \in STRING, pos \in Nat] ==
            IF pos > Len(buf) THEN [cmds |-> <<>>, pos |-> pos, spin |-> FALSE]
            ELSE IF Char(buf, pos) # "*" THEN S[buf, pos + 1]
            ELSE LET cr == Position(buf, "\r", pos + 1)
                     size == IF cr = 0 THEN NoneU64
                             ELSE ParseUnsigned(SubSeq(buf, pos + 1, cr - 1))
                     r == ScanElements(buf, 0, size, cr + 2)
                 IN  IF size = NoneU64 THEN [cmds |-> <<>>, pos |-> pos, spin |-> FALSE]
                     ELSE IF r.spin THEN [cmds |-> <<>>, pos |-> pos, spin |-> TRUE]
                     ELSE IF ~r.complete THEN [cmds |-> <<>>, pos |-> pos, spin |-> FALSE]
                     ELSE LET parsed == parse_message(SubSeq(buf, pos, r.array_end - 1))
                              rest == S[buf, r.array_end]
                          IN  [cmds |-> (IF parsed.ok THEN <<parsed.cmd>> ELSE <<>>)
                                        \o rest.cmds,
                               pos |-> rest.pos, spin |-> rest.spin]
    IN  S[buffer_bytes, 1]

\* a stream task that first registers the link as client 0, with the writer
\* of socket 1
StreamEvents_Registered(cmds) ==
    IF cmds = <<>> THEN <<>>
    ELSE <<ClientConnected(0, 1, 0)>> \o [i \in 1..Len(cmds) |-> CommandReceived(0, cmds[i])]

\* publish_command(0, parsed_command) of each command, in order
StreamEvents(cmds) == [i \in 1..Len(cmds) |-> CommandReceived(0, cmds[i])]

\* one turn of the stream task's loop: read returns the n bytes that have
\* arrived, they are appended to the buffer, the buffer is scanned, the
\* commands of the complete frames are published and the scanned part dropped
StreamRead(n) ==
    /\ stream = "running"
    /\ n >= 1 /\ n <= Len(linkIn) /\ n <= StreamBufferSize
    /\ LET buf == buffer \o SubSeq(linkIn, 1, n)
           r == Scan(buf)
       IN  /\ Len(queue) + Len(r.cmds) <= ChannelCapacity
           /\ queue' = Publish(queue, StreamEvents(r.cmds))
           /\ buffer' = IF r.spin THEN buf ELSE SubSeq(buf, r.pos, Len(buf))
           /\ stream' = IF r.spin THEN "spinning" ELSE "running"
    /\ linkIn' = SubSeq(linkIn, n + 1, Len(linkIn))
    /\ UNCHANGED <<pending, loaderVars, now, phase, serverVars, connVars, hs, linkOut, masterPos, size_str,
                   rdb_size, heard, rdb_buffer, propagated, historyVars>>

(***************************************************************************)
(* The primary at the other end of the link: it answers each message of    *)
(* the replica as Command::execute and handle_command do, and after its    *)
(* answer to PSYNC it propagates the SETs it executes.                     *)
(***************************************************************************)
\* the bytes of a sequence of writes, as the socket carries them
Join(writes) ==
    LET J[w \in Seq(STRING)] == IF w = <<>> THEN "" ELSE Head(w) \o J[Tail(w)]
    IN  J[writes]

\* the bytes the primary writes in answer to message; REPLCONF ACK gets no answer
PrimaryReply(message) ==
    LET parsed == parse_message(message)
    IN  IF ~parsed.ok THEN "-ERR " \o parsed.err \o CRLF
        ELSE IF parsed.cmd.name = "REPLCONF" /\ parsed.cmd.args # <<>>
                /\ parsed.cmd.args[1] = "ACK" THEN ""
        ELSE Join(ResponseWrites(execute(parsed.cmd, EmptyMap, PortConfig, "master", "",
                                         NoneU64, <<>>, 6380, 0, <<>>).responses))

PrimaryAnswer ==
    /\ hs # "failed"
    /\ masterPos < Len(linkOut)
    /\ linkIn' = linkIn \o PrimaryReply(linkOut[masterPos + 1])
    /\ masterPos' = masterPos + 1
    /\ UNCHANGED <<pending, loaderVars, now, phase, queue, serverVars, connVars, hs, linkOut, size_str, rdb_size,
                   stream, buffer, heard, rdb_buffer, propagated, historyVars>>

\* the SET that the primary executes and propagates
PropagatedKey == "k"
PropagatedValue == "v"

PrimaryPropagate ==
    /\ hs # "failed"
    /\ masterPos >= 4
    /\ propagated < MaxPropagated
    /\ linkIn' = linkIn \o replicated_command(PropagatedKey, PropagatedValue)
    /\ propagated' = propagated + 1
    /\ UNCHANGED <<pending, loaderVars, now, phase, queue, serverVars, connVars, hs, linkOut, masterPos, size_str,
                   rdb_size, stream, buffer, heard, rdb_buffer, historyVars>>

(***************************************************************************)
(* SpecReplica: a node started as a replica, its primary, and one client   *)
(* of the node.                                                            *)
(***************************************************************************)
InitReplica ==
    /\ InitState(ReplicaConfig)
    /\ phase = "startup"
    /\ hs = "none"
    /\ rdb_file = <<>>
    /\ length_input = <<>>

ReplicaFrames ==
    { construct_redis_command(<<"GET", PropagatedKey>>),
      construct_redis_command(<<"SET", "a", "1">>),
      construct_redis_command(<<"INFO", "replication">>) }

NextReplica ==
    \/ \E connected \in BOOLEAN : Dial(connected)
    \/ \E n \in 1..Len(linkIn) : Expect(n)
    \/ ReadSize
    \/ ReadRdb
    \/ StartServing
    \/ \E n \in 1..Len(linkIn) : StreamRead(n)
    \/ PrimaryAnswer
    \/ PrimaryPropagate
    \/ \E p \in Ports : Accept(1, p)
    \/ \E f \in ReplicaFrames : sentCount < ReplicaWrites /\ ReaderReceive(1, f)
    \/ HandleEvent

SpecReplica == InitReplica /\ [][NextReplica]_vars

(***************************************************************************)
(* SpecLink: the replica and its primary alone, with no client of the      *)
(* replica.                                                                *)
(***************************************************************************)
NextLink ==
    \/ \E connected \in BOOLEAN : Dial(connected)
    \/ \E n \in 1..Len(linkIn) : Expect(n)
    \/ ReadSize
    \/ ReadRdb
    \/ StartServing
    \/ \E n \in 1..Len(linkIn) : StreamRead(n)
    \/ PrimaryAnswer
    \/ PrimaryPropagate
    \/ HandleEvent

SpecLink == InitReplica /\ [][NextLink]_vars

(***************************************************************************)
(* SpecInfo: a node started as a primary or as a replica, and peers that   *)
(* announce themselves as replicas and ask for INFO replication.           *)
(***************************************************************************)
InfoFrames ==
    { construct_redis_command(<<"REPLCONF", "listening-port", "6380">>),
      construct_redis_command(<<"INFO", "replication">>) }

InitInfo ==
    /\ \E cfg \in {PortConfig, ReplicaConfig} :
          /\ InitState(cfg)
          /\ phase = IF cfg = PortConfig THEN "serving" ELSE "startup"
    /\ hs = "none"
    /\ rdb_file = <<>>
    /\ length_input = <<>>

NextInfo ==
    \/ \E connected \in BOOLEAN : Dial(connected)
    \/ \E n \in 1..Len(linkIn) : Expect(n)
    \/ ReadSize
    \/ ReadRdb
    \/ StartServing
    \/ PrimaryAnswer
    \/ \E c \in Conns, p \in Ports : Accept(c, p)
    \/ \E c \in Conns, f \in InfoFrames : sentCount < InfoWrites /\ ReaderReceive(c, f)
    \/ HandleEvent

SpecInfo == InitInfo /\ [][NextInfo]_vars

(***************************************************************************)
(* SpecPanic: a primary and one peer that sends requests which the parser  *)
(* accepts, among them REPLCONF with and without arguments and SET with an *)
(* expiry.                                                                 *)
(***************************************************************************)
PanicFrames ==
    { construct_redis_command(<<"REPLCONF">>),
      construct_redis_command(<<"REPLCONF", "capa", "psync2">>),
      construct_redis_command(<<"SET", "a", "1", "EX", "1">>),
      construct_redis_command(<<"PING">>) }

NextPanic ==
    \/ \E p \in Ports : Accept(1, p)
    \/ \E f \in PanicFrames : sentCount < PanicWrites /\ ReaderReceive(1, f)
    \/ HandleEvent

SpecPanic == Init /\ [][NextPanic]_vars

(***************************************************************************)
(* SpecExpiry: a primary and one client that sets a key with EX, with PX   *)
(* and with both, and reads it, while the clock advances by SleepStep      *)
(* milliseconds at a time.                                                 *)
(***************************************************************************)
ExpiryFrames ==
    { construct_redis_command(<<"SET", "k", "v", "EX", "1">>),
      construct_redis_command(<<"SET", "k", "w", "PX", "1000">>),
      construct_redis_command(<<"SET", "k", "x", "PX", "500", "EX", "1">>),
      construct_redis_command(<<"GET", "k">>) }

\* the clock advances
Sleep ==
    /\ now < SleepHorizon
    /\ now' = now + SleepStep
    /\ UNCHANGED <<pending, loaderVars, phase, queue, serverVars, connVars, linkVars, historyVars>>

NextExpiry ==
    \/ \E p \in Ports : Accept(1, p)
    \/ \E f \in ExpiryFrames : sentCount < ExpiryWrites /\ ReaderReceive(1, f)
    \/ HandleEvent
    \/ Sleep

SpecExpiry == Init /\ [][NextExpiry]_vars

(***************************************************************************)
(* SpecRead: a primary and one client that sets a key with a short expiry  *)
(* and sends the commands that only read, while time passes.               *)
(***************************************************************************)
ReadFrames ==
    { construct_redis_command(<<"SET", "k", "z", "PX", "1">>),
      construct_redis_command(<<"GET", "k">>),
      construct_redis_command(<<"KEYS", "*">>),
      construct_redis_command(<<"PING">>),
      construct_redis_command(<<"ECHO", "hi">>),
      construct_redis_command(<<"CONFIG", "GET", "port">>),
      construct_redis_command(<<"INFO", "replication">>) }

NextRead ==
    \/ \E p \in Ports : Accept(1, p)
    \/ \E f \in ReadFrames : sentCount < ReadWrites /\ ReaderReceive(1, f)
    \/ HandleEvent
    \/ Tick

SpecRead == Init /\ [][NextRead]_vars

(***************************************************************************)
(* SpecResync: a primary, a client that sets keys, and a peer that asks    *)
(* for a full resynchronization.                                           *)
(***************************************************************************)
ResyncFrames ==
    { construct_redis_command(<<"SET", "a", "1">>),
      construct_redis_command(<<"REPLCONF", "listening-port", "6380">>),
      construct_redis_command(<<"PSYNC", "?", "-1">>) }

NextResync ==
    \/ \E c \in Conns, p \in Ports : Accept(c, p)
    \/ \E c \in Conns, f \in ResyncFrames : sentCount < ResyncWrites /\ ReaderReceive(c, f)
    \/ HandleEvent

SpecResync == Init /\ [][NextResync]_vars

(***************************************************************************)
(* SpecLength: the decoder reads one length.  The first bytes cover the    *)
(* four encodings, the bytes that follow are up to MaxFollowing bytes, too *)
(* few for the encoding in some cases.                                     *)
(***************************************************************************)
FirstBytes == {0, 5, 63, 64, 65, 127, 128, 129, 191, 192, 193, 194, 195, 255}

FollowingBytes == {0, 1, 2}

RECURSIVE ByteStrings(_)
ByteStrings(n) ==
    IF n = 0 THEN { <<>> }
    ELSE ByteStrings(n - 1)
         \cup { Append(b, x) : b \in {y \in ByteStrings(n - 1) : Len(y) = n - 1},
                               x \in FollowingBytes }

InitLength ==
    /\ InitState(PortConfig)
    /\ phase = "startup"
    /\ hs = "none"
    /\ rdb_file = <<>>
    /\ length_input \in { <<first>> \o rest : first \in FirstBytes,
                                             rest \in ByteStrings(MaxFollowing) }

NextLength == ReadLength

SpecLength == InitLength /\ [][NextLength]_vars

(***************************************************************************)
(* SpecPeers: a primary and peers at several loopback addresses, whose     *)
(* ports may be equal.                                                     *)
(***************************************************************************)
PeersFrames ==
    { construct_redis_command(<<"PING">>),
      construct_redis_command(<<"ECHO", "hi">>),
      construct_redis_command(<<"SET", "a", "1">>),
      construct_redis_command(<<"GET", "a">>) }

NextPeers ==
    \/ \E c \in Conns, p \in Ports : AcceptFrom(c, p)
    \/ \E c \in Conns, f \in PeersFrames : sentCount < PeersWrites /\ ReaderReceive(c, f)
    \/ HandleEvent

SpecPeers == Init /\ [][NextPeers]_vars

(***************************************************************************)
(* SpecLeave: a primary whose peers register as replicas, set keys, ask    *)
(* for the replication information and close their connections.            *)
(***************************************************************************)
LeaveFrames ==
    { construct_redis_command(<<"REPLCONF", "listening-port", "6380">>),
      construct_redis_command(<<"SET", "a", "1">>),
      construct_redis_command(<<"INFO", "replication">>) }

NextLeave ==
    \/ \E c \in Conns, p \in Ports : Accept(c, p)
    \/ \E c \in Conns, f \in LeaveFrames : sentCount < LeaveWrites /\ ReaderReceive(c, f)
    \/ \E c \in Conns : PeerClose(c)
    \/ \E c \in Conns : ReaderEof(c)
    \/ HandleEvent

SpecLeave == Init /\ [][NextLeave]_vars

(***************************************************************************)
(* What the histories show.                                                *)
(***************************************************************************)
\* the byte strings of the writes of kind on a socket, in order
RECURSIVE WritesOfKind(_, _)
WritesOfKind(o, kind) ==
    IF o = <<>> THEN <<>>
    ELSE IF Head(o).kind = kind THEN <<Head(o).bytes>> \o WritesOfKind(Tail(o), kind)
    ELSE WritesOfKind(Tail(o), kind)

\* the RESP encodings of the SETs the event loop executed as a primary, in order
RECURSIVE SetEncodings(_)
SetEncodings(log) ==
    IF log = <<>> THEN <<>>
    ELSE IF Head(log).command.name = "SET" /\ Head(log).role = "master"
         THEN <<construct_redis_command(<<"SET", Head(log).command.key, Head(log).command.value>>)>>
              \o SetEncodings(Tail(log))
         ELSE SetEncodings(Tail(log))

\* the messages of the PropagateSlave events still in the channel, in order
RECURSIVE PendingPropagations(_)
PendingPropagations(q) ==
    IF q = <<>> THEN <<>>
    ELSE IF Head(q).type = "PropagateSlave"
         THEN <<Head(q).message>> \o PendingPropagations(Tail(q))
         ELSE PendingPropagations(Tail(q))

IsInfix(a, b) == \E i \in 0..(Len(b) - Len(a)) : SubSeq(b, i + 1, i + Len(a)) = a

IsSuffix(a, b) == Len(a) <= Len(b) /\ SubSeq(b, Len(b) - Len(a) + 1, Len(b)) = a

\* socket c is the writer of the client record of a registered replica
IsReplicaSocket(c) ==
    \E i \in 1..Len(slaves) :
        slaves[i].addr \in DOMAIN clients /\ clients[slaves[i].addr].writer = c

RECURSIVE LastSetBefore(_, _, _)
LastSetBefore(log, key, i) ==
    IF i <= 1 THEN 0
    ELSE IF log[i - 1].command.name = "SET" /\ log[i - 1].command.key = key THEN i - 1
    ELSE LastSetBefore(log, key, i - 1)

ExpectedBulk(v) == "$" \o Decimal(Len(v)) \o "\r\n" \o v \o "\r\n"

ExpectedNull == "$-1\r\n"

GetsOf(log) == {i \in 1..Len(log) : log[i].command.name = "GET"}

(***************************************************************************)
(* C3: a GET of a key whose last SET had no expiry option is answered with *)
(* the bulk string of that SET's value, and a GET of a key that was never  *)
(* set with the null bulk string.                                          *)
(***************************************************************************)
C3_GetReturnsLastSet ==
    \A i \in GetsOf(executed) :
        LET j == LastSetBefore(executed, executed[i].command.arg, i)
        IN  IF j = 0 THEN executed[i].responses = <<ExpectedNull>>
            ELSE (executed[j].command.px = NoneU64 /\ executed[j].command.ex = NoneU64)
                    => executed[i].responses = <<ExpectedBulk(executed[j].command.value)>>

\* SET k x; SET k yy; GET k was executed, from two connections, and the GET
\* was answered with yy
C3_Witness ==
    \E i \in GetsOf(executed) :
        LET j == LastSetBefore(executed, executed[i].command.arg, i)
        IN  /\ j > 1
            /\ executed[j].command.px = NoneU64
            /\ LastSetBefore(executed, executed[i].command.arg, j) > 0
            /\ executed[LastSetBefore(executed, executed[i].command.arg, j)].command.value
                  # executed[j].command.value
            /\ executed[i].writer # executed[j].writer
            /\ executed[i].responses = <<ExpectedBulk("yy")>>

(***************************************************************************)
(* C4: after SET k v PX d executed at time t, a GET of k executed at a     *)
(* time not later than t + d is answered with v, and one executed later    *)
(* than t + d with the null bulk string, until k is set again.             *)
(***************************************************************************)
C4_ExpiryVisibility ==
    \A i \in GetsOf(executed) :
        LET j == LastSetBefore(executed, executed[i].command.arg, i)
        IN  (j > 0 /\ executed[j].command.px # NoneU64)
               => executed[i].responses =
                     IF executed[i].time <= executed[j].time + executed[j].command.px
                     THEN <<ExpectedBulk(executed[j].command.value)>>
                     ELSE <<ExpectedNull>>

\* a GET exactly at the deadline, answered with the value, and a later GET,
\* answered with null, of the same SET
C4_Witness ==
    \E i1, i2 \in GetsOf(executed) :
        LET j == LastSetBefore(executed, executed[i1].command.arg, i1)
        IN  /\ j > 0
            /\ executed[j].command.px # NoneU64
            /\ LastSetBefore(executed, executed[i2].command.arg, i2) = j
            /\ executed[i1].time = executed[j].time + executed[j].command.px
            /\ executed[i1].responses = <<ExpectedBulk("z")>>
            /\ executed[i2].time > executed[j].time + executed[j].command.px
            /\ executed[i2].responses = <<ExpectedNull>>

(***************************************************************************)
(* C2: a replica that completed the handshake with the empty snapshot has  *)
(* an empty keyspace until a command is executed; and once the primary has *)
(* propagated SET k v, the stream task has read and scanned everything the *)
(* primary sent and the event loop has handled every event, the replica's  *)
(* keyspace holds k = v: nothing is left that could bring it there later.  *)
(***************************************************************************)
C2_ReplicaConverges ==
    /\ (hs = "streaming" /\ executed = <<>>) => db = EmptyMap
    /\ (/\ hs = "streaming" /\ phase = "serving" /\ stream = "running"
        /\ propagated > 0
        /\ linkIn = "" /\ buffer = "" /\ queue = <<>>)
          => (PropagatedKey \in DOMAIN db /\ db[PropagatedKey].value = PropagatedValue)

(***************************************************************************)
(* The command that each request of SpecReader stands for.                 *)
(***************************************************************************)
RequestCommand(f) ==
    CASE f = "*1\r\n$4\r\nPING\r\n" -> [name |-> "PING"]
      [] f = "*2\r\n$3\r\nGET\r\n$1\r\nk\r\n" -> [name |-> "GET", arg |-> "k"]

(***************************************************************************)
(* C5: once the reader has read everything its client wrote, and the       *)
(* client wrote valid requests only, the reader has published exactly the  *)
(* commands of these requests, in order, however the reads split the bytes.*)
(***************************************************************************)
C5_SplitInvariance ==
    \A c \in Conns :
        (wire[c] = "" /\ \A i \in 1..Len(script[c]) : script[c][i] \in ValidRequests)
            => published[c] = [i \in 1..Len(script[c]) |-> RequestCommand(script[c][i])]

(***************************************************************************)
(* C6: when the event loop has nothing left to do, each request that the   *)
(* reader of an open connection failed to parse has its line               *)
(* -ERR <message> among the writes on that connection.                     *)
(***************************************************************************)
C6_ParseErrorReported ==
    \A c \in Conns :
        (connState[c] = "open" /\ queue = <<>>)
            => \A i \in 1..Len(rejected[c]) :
                  \E j \in 1..Len(out[c]) :
                      out[c][j].bytes = "-ERR " \o rejected[c][i] \o "\r\n"

(***************************************************************************)
(* The handshake as the protocol prescribes it.                            *)
(***************************************************************************)
HandshakeFrames ==
    << "*1\r\n$4\r\nPING\r\n",
       "*3\r\n$8\r\nREPLCONF\r\n$14\r\nlistening-port\r\n$4\r\n6380\r\n",
       "*3\r\n$8\r\nREPLCONF\r\n$4\r\ncapa\r\n$6\r\npsync2\r\n",
       "*3\r\n$5\r\nPSYNC\r\n$1\r\n?\r\n$2\r\n-1\r\n",
       "*3\r\n$8\r\nREPLCONF\r\n$3\r\nACK\r\n$1\r\n0\r\n" >>

ExpectedReplies == <<"+PONG", "+OK", "+OK", "+FULLRESYNC">>

IsPrefix(a, b) == Len(a) <= Len(b) /\ SubSeq(b, 1, Len(a)) = a

C8_HandshakeTolerant == hs = "failed" => linkOut = <<>>

(***************************************************************************)
(* C9: after a failed handshake the node is a standalone primary: its role *)
(* is master, INFO replication reports role:master, and a SET is executed  *)
(* as on a primary.                                                        *)
(***************************************************************************)
C9_StandaloneAfterFailure ==
    hs = "failed" =>
        /\ role = "master"
        /\ \A i \in 1..Len(executed) :
              /\ executed[i].command.name = "INFO"
                    => Contains(executed[i].responses[1], "role:master")
              /\ executed[i].command.name = "SET" => executed[i].role = "master"

(***************************************************************************)
(* C10: every PSYNC is answered with the FULLRESYNC line and the snapshot  *)
(* frame.                                                                  *)
(***************************************************************************)
C10_AlwaysFullResync ==
    \A i \in 1..Len(executed) :
        executed[i].command.name = "PSYNC"
            => executed[i].responses =
                  << "+FULLRESYNC " \o master_replid \o " 0\r\n", "$10\r\n", "REDIS0009\f" >>

(***************************************************************************)
(* What the primary writes in answer to the handshake's four messages, and *)
(* the part of it that the expect_* steps are to read: the reply lines.    *)
(***************************************************************************)
HandshakeReplyBytes ==
    PrimaryReply(HandshakeFrames[1]) \o PrimaryReply(HandshakeFrames[2])
        \o PrimaryReply(HandshakeFrames[3]) \o PrimaryReply(HandshakeFrames[4])

FullResyncLine == "+FULLRESYNC " \o master_replid \o " 0\r\n"

HandshakeReplyLines ==
    PrimaryReply(HandshakeFrames[1]) \o PrimaryReply(HandshakeFrames[2])
        \o PrimaryReply(HandshakeFrames[3]) \o FullResyncLine

(***************************************************************************)
(* C11: the primary answers PSYNC ? -1 with the FULLRESYNC line, $10 CRLF  *)
(* and the 10 bytes of the empty snapshot, nothing after them; the reads   *)
(* of the handshake's expect_* steps take nothing of the snapshot frame    *)
(* beyond the $ that the size loop skips, and nothing of what the primary  *)
(* wrote after it; and a completed handshake has read exactly the bytes of *)
(* the four answers: the reply lines, the size header and the payload.     *)
(***************************************************************************)
C11_SnapshotFraming ==
    /\ PrimaryReply(HandshakeFrames[4]) = FullResyncLine \o "$10\r\n" \o "REDIS0009\f"
    /\ Len(Join(heard)) <= Len(HandshakeReplyLines) + 1
    /\ hs = "streaming" =>
          LET taken == Len(Join(heard))
              total == Len(HandshakeReplyBytes)
              header == SubSeq(HandshakeReplyBytes, taken + 1, total - Len(rdb_buffer))
          IN  /\ IsPrefix(Join(heard), HandshakeReplyBytes)
              /\ taken + Len(rdb_buffer) <= total
              /\ IsSuffix(rdb_buffer, HandshakeReplyBytes)
              /\ SizeLoop(header, 0, "").state = "rdb_body"
              /\ SizeLoop(header, 0, "").taken = Len(header)

(***************************************************************************)
(* C12: REPLCONF GETACK * is answered with the frame REPLCONF ACK 0.       *)
(***************************************************************************)
C12_GetAckAnswered ==
    \A i \in 1..Len(executed) :
        (executed[i].command.name = "REPLCONF" /\ executed[i].command.args = <<"GETACK", "*">>)
            => executed[i].responses = << "*3\r\n$8\r\nREPLCONF\r\n$3\r\nACK\r\n$1\r\n0\r\n" >>

(***************************************************************************)
(* C13: while the role is slave, no PropagateSlave event is in the channel *)
(* and no propagated command was written on any socket, whatever SETs the  *)
(* node executed.                                                          *)
(***************************************************************************)
C13_ReplicaNeverPropagates ==
    role = "slave" =>
        /\ PendingPropagations(queue) = <<>>
        /\ \A c \in Conns : WritesOfKind(out[c], "prop") = <<>>

\* a replica that completed the handshake executed the SET of a client
C13_Witness ==
    /\ role = "slave"
    /\ hs = "streaming"
    /\ \E i \in 1..Len(executed) :
          /\ executed[i].command.name = "SET"
          /\ executed[i].role = "slave"
          /\ executed[i].responses = <<"+OK\r\n">>
    /\ "a" \in DOMAIN db

(***************************************************************************)
(* C14: no two entries of the replica registry have the same address.      *)
(***************************************************************************)
C14_RegistryUnique ==
    \A i, j \in 1..Len(slaves) : slaves[i].addr = slaves[j].addr => i = j

\* one connection sent REPLCONF listening-port twice, the event loop handled
\* both SlaveConnected events, and the registry holds its address once
C14_Witness ==
    /\ \E i, j \in 1..Len(executed) :
          /\ i < j
          /\ executed[i].writer = executed[j].writer
          /\ executed[i].command.name = "REPLCONF"
          /\ executed[j].command.name = "REPLCONF"
          /\ executed[i].command.args[1] = "listening-port"
          /\ executed[j].command.args[1] = "listening-port"
    /\ queue = <<>>
    /\ Len(slaves) = 1

(***************************************************************************)
(* C15: once the reader of a connection has ended and the event loop has   *)
(* handled every event, the client registry holds no record for the id of  *)
(* that connection (its peer port), unless a later connection uses the     *)
(* same port: the ClientDisconnected event was published and handled.      *)
(***************************************************************************)
C15_DisconnectRemovesClient ==
    \A c \in Conns :
        (/\ reader[c] = "done"
         /\ queue = <<>>
         /\ \A b \in Conns \ {c} : connState[b] # "free" => connPort[b] # connPort[c])
            => connPort[c] \notin DOMAIN clients

(***************************************************************************)
(* The commands that the event loop executed for the connection of socket  *)
(* c, and the writes of their responses, in the order of execution.        *)
(***************************************************************************)
RECURSIVE CommandsOf(_, _)
CommandsOf(log, c) ==
    IF log = <<>> THEN <<>>
    ELSE IF Head(log).writer = c THEN <<Head(log).command>> \o CommandsOf(Tail(log), c)
    ELSE CommandsOf(Tail(log), c)

RECURSIVE RepliesOf(_, _)
RepliesOf(log, c) ==
    IF log = <<>> THEN <<>>
    ELSE IF Head(log).writer = c THEN Head(log).responses \o RepliesOf(Tail(log), c)
    ELSE RepliesOf(Tail(log), c)

(***************************************************************************)
(* C16: for each connection, the commands the event loop has executed are  *)
(* the first of the commands its reader published, in the same order, and  *)
(* the replies written on its socket are the responses of these commands   *)
(* in that order (all of them while the peer keeps the socket open).       *)
(***************************************************************************)
C16_ConnectionOrder ==
    \A c \in Conns :
        /\ IsPrefix(CommandsOf(executed, c), published[c])
        /\ IsPrefix(WritesOfKind(out[c], "reply"), RepliesOf(executed, c))
        /\ connState[c] = "open" => WritesOfKind(out[c], "reply") = RepliesOf(executed, c)

\* a connection sent two different commands, while another connection sent
\* one in between or around them; all were executed and answered
C16_Witness ==
    \E c \in Conns :
        /\ Len(published[c]) = 2
        /\ published[c][1] # published[c][2]
        /\ CommandsOf(executed, c) = published[c]
        /\ Len(WritesOfKind(out[c], "reply")) = 2
        /\ \E b \in Conns \ {c} : Len(CommandsOf(executed, b)) >= 1

(***************************************************************************)
(* C18: the message of every PropagateSlave event in the channel is, byte  *)
(* for byte, a SET request that a client sent.                             *)
(***************************************************************************)
C18_ExactPropagation ==
    \A i \in 1..Len(queue) :
        queue[i].type = "PropagateSlave"
            => \E c \in Conns : \E j \in 1..Len(script[c]) : script[c][j] = queue[i].message

(***************************************************************************)
(* The shared state: the keyspace, the replication state and the client    *)
(* registry change in this step.                                           *)
(***************************************************************************)
SharedStateWritten ==
    \/ db' # db
    \/ role' # role
    \/ master_host' # master_host
    \/ master_port' # master_port
    \/ slaves' # slaves
    \/ clients' # clients

(***************************************************************************)
(* C19 as stated: every step that changes the keyspace, the replication    *)
(* state or the client registry is a step of the event loop.               *)
(***************************************************************************)
C19_OnlyEventLoopWrites == [][SharedStateWritten => HandleEvent]_vars

(***************************************************************************)
(* C19, amended: once main has spawned the event loop, every step that     *)
(* changes the keyspace, the replication state or the client registry is a *)
(* step of the event loop; before that, configure_replication and the      *)
(* handshake write them.                                                   *)
(***************************************************************************)
C19_SingleWriterWhileServing ==
    [][(phase = "serving" /\ SharedStateWritten) => HandleEvent]_vars

\* the node serves as a replica: the handshake wrote the role during
\* startup, the stream task read what the primary propagated, a reader
\* published a SET, and the event loop executed it
C19_Witness ==
    /\ phase = "serving"
    /\ hs = "streaming"
    /\ role = "slave"
    /\ propagated > 0
    /\ linkIn = ""
    /\ queue = <<>>
    /\ \E i \in 1..Len(executed) : executed[i].command.name = "SET"
    /\ clients # EmptyMap
    /\ db # EmptyMap

(***************************************************************************)
(* C20: the executor never waits to send into the full channel.  In such a *)
(* state the only receiver, the event loop, is the task that waits, so     *)
(* neither this send nor the send of any other producer completes later.   *)
(***************************************************************************)
C20_ProducersUnblocked == ~(pending # <<>> /\ Len(queue) = ChannelCapacity)

(***************************************************************************)
(* C17: decoding the 10-byte empty snapshot, REDIS0009 and the end marker  *)
(* with no checksum bytes after it, inserts no key and reports no error.   *)
(***************************************************************************)
C17_EmptySnapshotDecodes ==
    (rdb_file = Bytes(EMPTY_RDB_FILE) /\ rdb_result # "none")
        => (rdb_result = "ok" /\ db = EmptyMap)

(***************************************************************************)
(* C21: on a replica, the handling of a CommandReceived event with client  *)
(* id 0 writes nothing: not on a client's socket and not on the link to    *)
(* the primary.                                                            *)
(***************************************************************************)
C21_PrimaryChannelSilent ==
    [][(/\ role = "slave"
        /\ queue # <<>>
        /\ Head(queue).type = "CommandReceived"
        /\ Head(queue).client_id = 0
        /\ HandleEvent)
          => (out' = out /\ linkOut' = linkOut)]_vars

\* the stream task read the SET that the primary propagated, published it
\* with client id 0, and the event loop took it from the channel, with a
\* client's socket open
C21_Witness ==
    /\ phase = "serving"
    /\ hs = "streaming"
    /\ role = "slave"
    /\ stream = "running"
    /\ propagated > 0
    /\ linkIn = ""
    /\ buffer = ""
    /\ queue = <<>>
    /\ connState[1] = "open"
    /\ 6001 \in DOMAIN clients

(***************************************************************************)
(* C22: the answer to INFO replication is a bulk string.  On a primary it  *)
(* holds role:master, master_replid: with the 40 characters of the id,     *)
(* master_repl_offset:, connected_slaves: with the number of entries of    *)
(* the replica registry, and a slaveN line for each entry; on a replica it *)
(* holds role:slave, master_host:, master_port: and master_link_status:up. *)
(***************************************************************************)
InfoPayload(reply) == SubSeq(reply, Position(reply, "\n", 1) + 1, Len(reply) - 2)

InfoShape(reply, r) ==
    LET body == InfoPayload(reply)
    IN  /\ reply = ExpectedBulk(body)
        /\ r = "master" =>
              /\ Contains(body, "role:master" \o CRLF)
              /\ Len(master_replid) = 40
              /\ Contains(body, "master_replid:" \o master_replid \o CRLF)
              /\ Contains(body, "master_repl_offset:0" \o CRLF)
              /\ Contains(body, "connected_slaves:" \o Decimal(Len(slaves)) \o CRLF)
              /\ \A i \in 1..Len(slaves) :
                    Contains(body, "slave" \o Decimal(i - 1) \o ":ip=" \o PeerIp \o ",port="
                                   \o Decimal(slaves[i].addr) \o ",")
        /\ r = "slave" =>
              /\ Contains(body, "role:slave" \o CRLF)
              /\ Contains(body, "master_host:" \o master_host \o CRLF)
              /\ Contains(body, "master_port:" \o Decimal(master_port) \o CRLF)
              /\ Contains(body, "master_link_status:up" \o CRLF)

C22_InfoReplication ==
    [][(/\ Len(executed') = Len(executed) + 1
        /\ executed'[Len(executed')].command.name = "INFO"
        /\ ToLower(executed'[Len(executed')].command.arg) = "replication")
          => InfoShape(Join(executed'[Len(executed')].responses), role)]_vars

\* a primary with two registered replicas answered INFO replication
C22_Witness ==
    /\ role = "master"
    /\ Len(slaves) = 2
    /\ \E i \in 1..Len(executed) :
          /\ executed[i].command.name = "INFO"
          /\ Contains(executed[i].responses[1], "connected_slaves:2")
          /\ Contains(executed[i].responses[1], "slave1:ip=")

(***************************************************************************)
(* C23: no command that the parser accepts makes the event loop panic:     *)
(* each is answered and the loop goes on with the events that follow.      *)
(***************************************************************************)
C23_NoPanic ==
    /\ ~panicked
    /\ \A i \in 1..Len(executed) : executed[i].responses # <<>>

(***************************************************************************)
(* C24: the expiry of a SET is its time plus the PX value when PX is       *)
(* given, whether or not EX is given too, and its time plus 1000 times the *)
(* EX value when only EX is given: SET k v EX s leaves the entry that      *)
(* SET k v PX 1000*s leaves at the same time, and a GET is answered for    *)
(* the one as for the other.                                               *)
(***************************************************************************)
\* the duration in milliseconds that the options of an executed SET stand for
DurationOf(set) ==
    IF set.command.px # NoneU64 THEN set.command.px
    ELSE IF set.command.ex # NoneU64 THEN 1000 * set.command.ex
    ELSE NoneU64

C24_ExpiryFromOptions ==
    /\ \A k \in DOMAIN db :
          LET j == LastSetBefore(executed, k, Len(executed) + 1)
          IN  /\ j > 0
              /\ db[k] = execute_set(k, executed[j].command.value, NoneU64,
                                     DurationOf(executed[j]), EmptyMap, executed[j].time)[k]
              /\ db[k].expiration = IF DurationOf(executed[j]) = NoneU64 THEN NoneU64
                                    ELSE executed[j].time + DurationOf(executed[j])
    /\ \A i \in GetsOf(executed) :
          LET j == LastSetBefore(executed, executed[i].command.arg, i)
          IN  j > 0 =>
                executed[i].responses =
                    IF DurationOf(executed[j]) = NoneU64
                       \/ executed[i].time <= executed[j].time + DurationOf(executed[j])
                    THEN <<ExpectedBulk(executed[j].command.value)>>
                    ELSE <<ExpectedNull>>

\* a SET with EX alone and a SET with PX and EX were executed; a GET one
\* second after the first was answered with its value and a GET later than
\* that with null
C24_Witness ==
    /\ \E j \in 1..Len(executed) :
          /\ executed[j].command.name = "SET"
          /\ executed[j].command.px # NoneU64 /\ executed[j].command.ex # NoneU64
          /\ executed[j].command.px # 1000 * executed[j].command.ex
    /\ \E i1, i2 \in GetsOf(executed) :
          LET j == LastSetBefore(executed, executed[i1].command.arg, i1)
          IN  /\ j > 0
              /\ executed[j].command.px = NoneU64 /\ executed[j].command.ex = 1
              /\ LastSetBefore(executed, executed[i2].command.arg, i2) = j
              /\ executed[i1].time = executed[j].time + 1000
              /\ executed[i1].responses = <<ExpectedBulk("v")>>
              /\ executed[i2].time > executed[j].time + 1000
              /\ executed[i2].responses = <<ExpectedNull>>

(***************************************************************************)
(* C25: the reader publishes a command only from a request that it has     *)
(* read to its end, and it loses no byte of a request that a read cut: the *)
(* commands published are never more than the requests read completely,    *)
(* and once everything that a client of valid requests wrote has been read *)
(* there is one command for each request.                                  *)
(***************************************************************************)
\* how many of the requests of a connection's script end within its first n bytes
CompleteRequests(requests, n) ==
    Cardinality({i \in 1..Len(requests) : Len(Join(SubSeq(requests, 1, i))) <= n})

C25_OnlyCompleteFrames ==
    \A c \in Conns :
        /\ Len(published[c])
              <= CompleteRequests(script[c], Len(Join(script[c])) - Len(wire[c]))
        /\ (wire[c] = "" /\ \A i \in 1..Len(script[c]) : script[c][i] \in ValidRequests)
              => Len(published[c]) = Len(script[c])

(***************************************************************************)
(* C26: the handling of a CommandReceived event whose client id has no     *)
(* record in the client registry changes nothing but the channel, which    *)
(* loses that event: the keyspace, the replication state and the client    *)
(* registry stay as they are, no event is published, no byte is written.   *)
(***************************************************************************)
C26_UnknownClientIgnored ==
    [][(/\ queue # <<>>
        /\ Head(queue).type = "CommandReceived"
        /\ Head(queue).client_id \notin DOMAIN clients
        /\ HandleEvent)
          => (/\ queue' = Tail(queue)
              /\ UNCHANGED <<db, role, master_host, master_port, slaves, clients, panicked,
                             out, linkOut, executed>>)]_vars

\* a replica with no client: the stream task published the SET that the
\* primary propagated, under client id 0, which has no record, and the event
\* loop took it from the channel
C26_Witness ==
    /\ phase = "serving"
    /\ stream = "running"
    /\ propagated > 0
    /\ linkIn = ""
    /\ buffer = ""
    /\ queue = <<>>
    /\ clients = EmptyMap
    /\ db = EmptyMap

(***************************************************************************)
(* C27: on a replica, as long as the handshake has not returned, with the  *)
(* snapshot decoded or with an error, no connection has been accepted, no  *)
(* command of a client is in the channel and none has been executed.       *)
(***************************************************************************)
C27_NoClientsBeforeDecode ==
    hs \notin {"streaming", "failed"} =>
        /\ phase = "startup"
        /\ \A c \in Conns : connState[c] = "free" /\ published[c] = <<>>
        /\ clients = EmptyMap
        /\ queue = <<>>
        /\ executed = <<>>

\* the handshake decoded the snapshot and returned, and after that the
\* command of a client was executed
C27_Witness ==
    /\ hs = "streaming"
    /\ rdb_buffer = EMPTY_RDB_FILE
    /\ connState[1] = "open"
    /\ published[1] # <<>>
    /\ executed # <<>>

(***************************************************************************)
(* C28: the execution of GET, KEYS, PING, ECHO, CONFIG GET or INFO leaves  *)
(* the keyspace as it is, and KEYS lists every key of the keyspace, the    *)
(* expired ones too.                                                       *)
(***************************************************************************)
ReadOnlyCommands == {"GET", "KEYS", "PING", "ECHO", "CONFIG", "INFO"}

C28_ReadsKeepKeyspace ==
    [][(/\ Len(executed') = Len(executed) + 1
        /\ executed'[Len(executed')].command.name \in ReadOnlyCommands)
          => (/\ db' = db
              /\ executed'[Len(executed')].command.name = "KEYS"
                    => \E order \in KeyOrders(db) :
                          executed'[Len(executed')].responses = <<execute_keys(order)>>)]_vars

\* after SET k z PX 1, a GET later than the expiry was answered with null,
\* a KEYS after that GET listed k, and k is still in the keyspace
C28_Witness ==
    /\ "k" \in DOMAIN db
    /\ is_expired(db["k"], now)
    /\ \E i, j \in 1..Len(executed) :
          /\ i < j
          /\ executed[i].command.name = "GET"
          /\ executed[i].responses = <<ExpectedNull>>
          /\ executed[j].command.name = "KEYS"
          /\ executed[j].responses = <<"*1\r\n$1\r\nk\r\n">>

(***************************************************************************)
(* C29: the snapshot with which the primary answers PSYNC holds the        *)
(* primary's keyspace: every key that a GET would find at the time PSYNC   *)
(* is executed is, with its value, among the entries that the snapshot's   *)
(* bytes decode to, which is the keyspace of the replica when its          *)
(* handshake has finished.                                                 *)
(***************************************************************************)
\* the entries that the bytes of a snapshot hold
SnapshotEntries(snapshot) == run(Bytes(snapshot), EmptyMap, RdbConfig).db

C29_SnapshotHoldsKeyspace ==
    [][(/\ Len(executed') = Len(executed) + 1
        /\ executed'[Len(executed')].command.name = "PSYNC"
        /\ Len(executed'[Len(executed')].responses) = 3)
          => \A k \in DOMAIN db :
                ~is_expired(db[k], now)
                   => /\ k \in DOMAIN SnapshotEntries(executed'[Len(executed')].responses[3])
                      /\ SnapshotEntries(executed'[Len(executed')].responses[3])[k].value
                            = db[k].value]_vars

(***************************************************************************)
(* C30: for a first byte and enough bytes after it, the length decoder     *)
(* returns the low 6 bits for 00xxxxxx; the low 6 bits times 256 plus the  *)
(* next byte for 01xxxxxx; the next 4 bytes as a little-endian number for  *)
(* 10xxxxxx; and for 11xxxxxx with the low 6 bits 0, 1 or 2 the next byte, *)
(* the next 2 bytes or the next 4 bytes as a little-endian number.         *)
(***************************************************************************)
\* how many bytes after the first the encoding of first takes; NoneU64 for
\* the encodings that the claim does not name
FollowingNeeded(first) ==
    CASE first \div 64 = 0 -> 0
      [] first \div 64 = 1 -> 1
      [] first \div 64 = 2 -> 4
      [] OTHER -> CASE first % 64 = 0 -> 1
                    [] first % 64 = 1 -> 2
                    [] first % 64 = 2 -> 4
                    [] OTHER -> NoneU64

LittleEndianLength(first, following) ==
    CASE first \div 64 = 0 -> first % 64
      [] first \div 64 = 1 -> (first % 64) * 256 + following[1]
      [] OTHER -> LittleEndian(SubSeq(following, 1, FollowingNeeded(first)))

C30_LengthDecoding ==
    (/\ length_result # <<>>
     /\ FollowingNeeded(length_input[1]) # NoneU64
     /\ Len(length_input) - 1 >= FollowingNeeded(length_input[1]))
        => /\ length_result[1].ok
           /\ length_result[1].value = LittleEndianLength(length_input[1], Tail(length_input))

(***************************************************************************)
(* C31: when the decoder stops with an error part-way through the file,    *)
(* every entry that the part of the file before the error holds stays in   *)
(* the keyspace, the node goes on to serve, and GET answers from that      *)
(* partial keyspace.  The entries before the error are those of the        *)
(* beginnings of the file that decode without an error: the keys of each   *)
(* of them are in the keyspace, and the keyspace is what the longest of    *)
(* them decodes to (a later entry replaces an earlier one of its key).     *)
(***************************************************************************)
DecodedBefore(file, n) == run(SubSeq(file, 1, n), EmptyMap, RdbConfig)

C31_PartialKeyspaceKept ==
    rdb_result = "error" =>
        /\ phase = "serving"
        /\ \A n \in 9..Len(rdb_file) :
              DecodedBefore(rdb_file, n).ok =>
                  /\ \A k \in DOMAIN DecodedBefore(rdb_file, n).db : k \in DOMAIN db
                  /\ (\A m \in (n + 1)..Len(rdb_file) : ~DecodedBefore(rdb_file, m).ok)
                        => db = DecodedBefore(rdb_file, n).db
        /\ \A i \in 1..Len(executed) :
              executed[i].command.name = "GET" =>
                  executed[i].responses =
                      << IF executed[i].command.arg \in DOMAIN db
                            /\ ~is_expired(db[executed[i].command.arg], executed[i].time)
                         THEN ExpectedBulk(db[executed[i].command.arg].value)
                         ELSE ExpectedNull >>

\* the decoder failed after the entry foo, and GET foo was answered with bar
C31_Witness ==
    /\ rdb_result = "error"
    /\ "foo" \in DOMAIN db
    /\ \E i \in 1..Len(executed) :
          /\ executed[i].command.name = "GET"
          /\ executed[i].command.arg = "foo"
          /\ executed[i].responses = <<ExpectedBulk("bar")>>

(***************************************************************************)
(* C32: every response is written on the socket of the connection that     *)
(* sent the command, also when two connections have the same peer port:    *)
(* the commands executed with a socket as their writer are commands that   *)
(* the reader of that socket published, in order, and the replies written  *)
(* on the socket are the responses of these.                               *)
(***************************************************************************)
C32_ResponsesToSender ==
    \A c \in Conns :
        /\ IsPrefix(CommandsOf(executed, c), published[c])
        /\ \A i \in 1..Len(out[c]) :
              out[c][i].kind = "reply" => Len(published[c]) >= 1

(***************************************************************************)
(* C33: propagated SET bytes are written only on the sockets of            *)
(* connections that registered as replicas: a socket that received a       *)
(* propagated command is one whose connection sent REPLCONF                *)
(* listening-port, also when its peer port is that of a replica that has   *)
(* disconnected.                                                           *)
(***************************************************************************)
SentListeningPort(c) ==
    \E j \in 1..Len(published[c]) :
        /\ published[c][j].name = "REPLCONF"
        /\ published[c][j].args # <<>>
        /\ published[c][j].args[1] = "listening-port"

C33_PropagationToReplicasOnly ==
    \A c \in Conns : WritesOfKind(out[c], "prop") # <<>> => SentListeningPort(c)

(***************************************************************************)
(* C34: on every socket the primary writes a propagated command only after *)
(* it has written, on that socket, the FULLRESYNC line and then the        *)
(* snapshot: no propagated SET precedes or splits the handshake replies.   *)
(***************************************************************************)
C34_HandshakeBeforePropagation ==
    \A c \in Conns : \A i \in 1..Len(out[c]) :
        out[c][i].kind = "prop" =>
            \E j, l \in 1..(i - 1) :
                /\ j < l
                /\ out[c][j].kind = "reply"
                /\ StartsWith(out[c][j].bytes, "+FULLRESYNC ")
                /\ out[c][l].kind = "reply"
                /\ out[c][l].bytes = EMPTY_RDB_FILE

(***************************************************************************)
(* C35: the ClientConnected event of a connection is in the channel before *)
(* any CommandReceived event of that connection: a reader runs only for a  *)
(* connection whose ClientConnected event was published, every command in  *)
(* the channel finds its client record or has the ClientConnected event of *)
(* its id before it, and so every command that a reader published is       *)
(* still in the channel or was executed, none was dropped.                 *)
(***************************************************************************)
Announced(id, q) ==
    \/ id \in DOMAIN clients
    \/ \E j \in 1..Len(q) : q[j].type = "ClientConnected" /\ q[j].client_id = id

RECURSIVE PublishedCount(_)
PublishedCount(c) == IF c = 0 THEN 0 ELSE Len(published[c]) + PublishedCount(c - 1)

C35_ConnectedBeforeCommand ==
    /\ \A c \in Conns : reader[c] # "none" => Announced(connPort[c], queue)
    /\ \A i \in 1..Len(queue) :
          queue[i].type = "CommandReceived" =>
              Announced(queue[i].client_id, SubSeq(queue, 1, i - 1))
    /\ ~panicked =>
          PublishedCount(MaxConn) =
              Len(executed)
              + Cardinality({i \in 1..Len(queue) : queue[i].type = "CommandReceived"})

\* a command was executed, and the channel holds the ClientConnected event
\* of a connection without a record yet, followed by a command of it
C35_Witness ==
    /\ executed # <<>>
    /\ \E j, i \in 1..Len(queue) :
          /\ j < i
          /\ queue[j].type = "ClientConnected"
          /\ queue[j].client_id \notin DOMAIN clients
          /\ queue[i].type = "CommandReceived"
          /\ queue[i].client_id = queue[j].client_id

(***************************************************************************)
(* C36: a write of a propagated command that fails on one replica's socket *)
(* does not end the fan-out.  In the step that handles a PropagateSlave    *)
(* event, every open socket that is the writer of a registered replica's   *)
(* client record gets the message, whatever the state of the other         *)
(* replicas' sockets, and the keyspace and the replica registry stay as    *)
(* they are.                                                               *)
(***************************************************************************)
FanoutStep ==
    /\ queue # <<>>
    /\ Head(queue).type = "PropagateSlave"
    /\ queue' = Tail(queue)

C36_FanoutSurvivesFailure ==
    [][FanoutStep =>
          /\ db' = db
          /\ slaves' = slaves
          /\ \A c \in Conns :
                (connState[c] = "open" /\ IsReplicaSocket(c))
                    => WritesOfKind(out'[c], "prop")
                          = Append(WritesOfKind(out[c], "prop"), Head(queue).message)]_vars

\* the first replica of the registry closed its socket before the only SET
\* was fanned out, so the write on it failed, and the second replica, whose
\* socket is open, has received the SET
C36_Witness ==
    \E c1, c2 \in Conns :
        /\ c1 # c2
        /\ Len(slaves) = 2
        /\ slaves[1].addr \in DOMAIN clients /\ clients[slaves[1].addr].writer = c1
        /\ slaves[2].addr \in DOMAIN clients /\ clients[slaves[2].addr].writer = c2
        /\ connState[c1] = "closed"
        /\ connState[c2] = "open"
        /\ WritesOfKind(out[c1], "prop") = <<>>
        /\ Len(SetEncodings(executed)) = 1
        /\ WritesOfKind(out[c2], "prop") = SetEncodings(executed)
        /\ \E i, j, k \in 1..Len(executed) :
              /\ i < k /\ j < k
              /\ executed[i].writer = c1 /\ executed[i].command.name = "REPLCONF"
              /\ executed[j].writer = c2 /\ executed[j].command.name = "REPLCONF"
              /\ executed[k].command.name = "SET"

(***************************************************************************)
(* The keyspace of a replica that has applied every command the primary    *)
(* propagated so far: each message of the SET arm, parsed with             *)
(* parse_message and executed in the role slave at the time the primary    *)
(* executed the SET, starting from the empty snapshot.                     *)
(***************************************************************************)
RECURSIVE ReplicaKeyspace(_, _)
ReplicaKeyspace(log, n) ==
    IF n = 0 THEN EmptyMap
    ELSE IF log[n].command.name = "SET" /\ log[n].role = "master"
         THEN execute(parse_message(replicated_command(log[n].command.key,
                                                       log[n].command.value)).cmd,
                      ReplicaKeyspace(log, n - 1), config, "slave", "localhost", 6379, <<>>,
                      DialedSocket, log[n].time, <<>>).db
         ELSE ReplicaKeyspace(log, n - 1)

(***************************************************************************)
(* C37: a replica that has applied every propagated command agrees with    *)
(* the primary on what GET returns for every key at every clock time,      *)
(* also for keys that the primary set with EX or PX and whose expiry       *)
(* instant has passed.                                                     *)
(***************************************************************************)
C37_ReplicaAgreesOnVisibility ==
    \A k \in DOMAIN db \cup DOMAIN ReplicaKeyspace(executed, Len(executed)) :
        execute_get(k, ReplicaKeyspace(executed, Len(executed)), now) = execute_get(k, db, now)

(***************************************************************************)
(* C38: the replica's stream task makes progress on every read: however    *)
(* the stream of valid command frames is split into reads, also when a     *)
(* read ends inside an array header or a bulk length line, the scan of the *)
(* buffer ends, so that the task can publish the complete frames and read  *)
(* again.                                                                  *)
(***************************************************************************)
C38_StreamReaderProgress == stream # "spinning"

(***************************************************************************)
(* C39: after the connection of a registered replica has closed, the       *)
(* replica leaves the registry.  Once the reader of the connection has     *)
(* ended and the event loop has handled every event, nothing more can      *)
(* happen for that connection, so by then the registry holds no replica    *)
(* with its address (unless another connection uses the same port).        *)
(***************************************************************************)
C39_ClosedReplicaRemoved ==
    \A c \in Conns :
        (/\ reader[c] = "done"
         /\ queue = <<>>
         /\ \A b \in Conns \ {c} : connState[b] # "free" => connPort[b] # connPort[c])
            => \A i \in 1..Len(slaves) : slaves[i].addr # connPort[c]

====
